---------------------------- MODULE Spec2Model ----------------------------
(***************************************************************************)
(* Note scheduling and multi-track playback core of the typing-keyboard    *)
(* instrument (TypeJam): the jam board's session editing, the              *)
(* JamPlaybackEngine, the single-recording playback engine with the        *)
(* recordings list that drives it, and the clip session (createJamSession),*)
(* all of them on the one process-wide Tone.Transport.                     *)
(*                                                                         *)
(* Times.  The code holds timeline times in seconds and recorded times in  *)
(* milliseconds.  The model holds every timeline time in tenths of a       *)
(* second, so the code's ms / 1000 is MsToTime(ms) = ms \div 100 here and  *)
(* the 0.1 s auto-stop buffer of the single-recording engine is one unit.  *)
(***************************************************************************)
EXTENDS Integers, Sequences, FiniteSets, TLC

VARIABLES
  jamSession,     \* JamBoard: useState(createEmptyJamSession()) - [tracks, duration]
  nextTrackId,    \* createJamTrack: crypto.randomUUID(), a fresh id per call
  tState,         \* Tone.Transport.state: "stopped" | "started" | "paused"
  tPos,           \* Tone.Transport.position / .seconds: the next tick to process
  timeline,       \* events scheduled on the transport, in insertion order
  due,            \* events of the tick being processed that are still to be invoked
  pendingEvt,     \* "start"/"stop" emitted by the transport, listeners not yet run
  ctx,            \* Tone.context.state: "suspended" | "running"
  jam,            \* JamPlaybackEngine fields
  jamTracks,      \* JamPlaybackEngine.jamSession.tracks (track id -> track)
  jamParts,       \* JamPlaybackEngine.parts (track id -> part)
  jamInst,        \* JamPlaybackEngine.instruments (names that have an instance)
  jamCalls,       \* JamPlaybackEngine.play() calls suspended at await Tone.start()
  se,             \* createPlaybackEngine closures, one per recording id
  seCalls,        \* single-engine play() calls suspended at an await
  enginesRef,     \* RecordingsList: enginesRef.current (ids that have an engine)
  playbackStates, \* RecordingsList: useState({}) - recording id -> bool
  ls,             \* createJamSession closure: parts, started, engineByRecording
  lsCalls,        \* createJamSession.play() calls suspended at an await
  hist,           \* history of the run: last operation and what it observed
  page,           \* Page: selected, ready, isRecording, recordingStartTime, currentRecordingRef
  recordings,     \* Page: useState([]) - the recordings library
  now,            \* Date.now()
  keyCalls,       \* onKeyDown calls suspended at await Tone.start(), oldest first
  boardEngines,   \* JamBoard: the engines initializePlaybackEngine created, oldest first
  engineRef,      \* JamBoard: playbackEngineRef.current, an index of boardEngines or 0
  storage,        \* localStorage: the item "typejam-recordings"
  libCall         \* the last direct call of a library function: [fn, args, result]

vars == << jamSession, nextTrackId, tState, tPos, timeline, due, pendingEvt, ctx,
           jam, jamTracks, jamParts, jamInst, jamCalls, se, seCalls, enginesRef,
           playbackStates, ls, lsCalls, hist, page, recordings, now, keyCalls,
           boardEngines, engineRef, storage, libCall >>

pageVars == << page, recordings, now, keyCalls, storage >>
engVars == << boardEngines, engineRef >>
boardVars == << jamSession, nextTrackId, libCall, pageVars, engVars >>
toneVars == << tState, tPos, timeline, due, pendingEvt, ctx >>
jamVars == << jam, jamTracks, jamParts, jamInst, jamCalls >>
seVars == << se, seCalls >>
listVars == << enginesRef, playbackStates >>
lsVars == << ls, lsCalls >>

-----------------------------------------------------------------------------
(* Bounds of the model *)

MaxTracks == 3        \* tracks a board session holds
MaxStart == 2         \* latest start time a drop can give a track
MaxLane == 1          \* highest lane index a drop can ask for
MaxOps == 4           \* operations issued by the user in one run
MaxBoardOps == 3      \* the same, in the runs of the board
MaxEngineOps == 3     \* the same, when every engine of the page is in the run
MaxLiveOps == 3       \* the same, in the runs checked for what eventually happens
MaxSeek == 3          \* latest time a seek asks for
MaxPos == 5           \* last transport tick that is processed
MaxNow == 2           \* last value of the wall clock
MaxKeyCalls == 2      \* key handlers suspended at one time
MaxPageOps == 6       \* clicks and key presses on the page in one run
MaxSaved == 2         \* recordings in a list that is saved
MaxNotes == 2         \* notes of a recording that is saved
MaxStoreOps == 2      \* saves and loads in one run
MaxPlaced == 2        \* tracks of a session findAvailableTrackIndex is called on
MaxLibraryOps == 3    \* finalizations, deletions, clears and reloads in one run
MaxTyped == 2         \* keys looked up in the key tables in one run
MaxShift == 27        \* largest shift given to caesarCipher, in either direction
MaxText == 2          \* characters of a string given to caesarCipher

-----------------------------------------------------------------------------
(* The recordings library *)

RecIds == {1, 2}

\* what loadRecordings() returns to the jam board: the library and a stored
\* recording whose instrument the registry does not know
StoredIds == RecIds \cup {3}

\* a recording id that a track can still hold after its recording was deleted
DeletedRecId == 4

\* the keys of the INSTRUMENTS registry
INSTRUMENTS == {"piano", "guitar", "bass", "violin", "drums"}

\* Recording (recording.js typedef): instrument, duration in ms, notes with
\* their timestamp in ms and velocity; ids 1 and 2 are the library.
Recording(r) ==
  IF r = 1
  THEN [id |-> 1, instrument |-> "piano", duration |-> 200,
        notes |-> << [timestamp |-> 0, velocity |-> 90], [timestamp |-> 100, velocity |-> 90] >>]
  ELSE IF r = 2
  THEN [id |-> 2, instrument |-> "drums", duration |-> 100,
        notes |-> << [timestamp |-> 0, velocity |-> 95] >>]
  ELSE [id |-> r, instrument |-> "kazoo", duration |-> 100,
        notes |-> << [timestamp |-> 0, velocity |-> 90] >>]

\* ms / 1000 of the code, in the model's time unit
MsToTime(ms) == ms \div 100

Max(a, b) == IF a > b THEN a ELSE b
Min(a, b) == IF a < b THEN a ELSE b

RECURSIVE SeqMax(_, _)
SeqMax(s, acc) == IF s = << >> THEN acc ELSE SeqMax(Tail(s), Max(acc, Head(s)))

-----------------------------------------------------------------------------
(* jamSession.js (lib): tracks and sessions of the jam board *)

createJamTrack(recording, startTime, trackIndex, id) ==
  [id |-> id, recordingId |-> recording.id, startTime |-> startTime,
   trackIndex |-> trackIndex, volume |-> 100, muted |-> FALSE, solo |-> FALSE,
   duration |-> MsToTime(recording.duration)]

createEmptyJamSession == [tracks |-> << >>, duration |-> 0]

calculateJamDuration(session) ==
  IF Len(session.tracks) = 0 THEN 0
  ELSE SeqMax([i \in 1..Len(session.tracks) |->
                 session.tracks[i].startTime + session.tracks[i].duration], 0)

updateJamSessionKeepDuration(session) == session

updateJamSession(session) ==
  [session EXCEPT !.duration = calculateJamDuration(session)]

\* lanes findAvailableTrackIndex looks at: trackIndex < 10
LaneLimit == 10

\* findAvailableTrackIndex(jamSession, preferredTrackIndex, startTime, duration)
findAvailableTrackIndex(session, preferredTrackIndex, startTime, duration) ==
  LET endTime == startTime + duration
      hasOverlap(trackIndex) ==
        \E i \in 1..Len(session.tracks) :
           /\ session.tracks[i].trackIndex = trackIndex
           /\ startTime < session.tracks[i].startTime + session.tracks[i].duration
           /\ session.tracks[i].startTime < endTime
      free == {trackIndex \in preferredTrackIndex..(LaneLimit - 1) : ~hasOverlap(trackIndex)}
  IN IF free # {} THEN CHOOSE trackIndex \in free : \A o \in free : trackIndex <= o
     ELSE Len(session.tracks)

\* no library function called directly yet
NoLibCall == [fn |-> "none", args |-> << >>, result |-> 0]

addTrackToSession(session, jamTrack) ==
  updateJamSession([session EXCEPT !.tracks = Append(session.tracks, jamTrack)])

removeTrackFromSession(session, trackId) ==
  updateJamSession([session EXCEPT
     !.tracks = SelectSeq(session.tracks, LAMBDA t : t.id # trackId)])


-----------------------------------------------------------------------------
(* The mutable world the handlers run on.  A handler is an operator from   *)
(* world to world, so that a handler that calls another (seek calls stop   *)
(* and play) is the composition of their operators.                        *)

Cur ==
  [tState |-> tState, tPos |-> tPos, timeline |-> timeline, due |-> due,
   pendingEvt |-> pendingEvt, ctx |-> ctx, jam |-> jam, jamTracks |-> jamTracks,
   jamParts |-> jamParts, jamInst |-> jamInst, jamCalls |-> jamCalls,
   se |-> se, seCalls |-> seCalls, ls |-> ls, lsCalls |-> lsCalls]

Install(S) ==
  /\ tState' = S.tState /\ tPos' = S.tPos /\ timeline' = S.timeline
  /\ due' = S.due /\ pendingEvt' = S.pendingEvt /\ ctx' = S.ctx
  /\ jam' = S.jam /\ jamTracks' = S.jamTracks /\ jamParts' = S.jamParts
  /\ jamInst' = S.jamInst /\ jamCalls' = S.jamCalls
  /\ se' = S.se /\ seCalls' = S.seCalls /\ ls' = S.ls /\ lsCalls' = S.lsCalls

-----------------------------------------------------------------------------
(* Tone.Transport, as the code uses it.  An event of the timeline is       *)
(* [kind, own, eng, part, idx, time]: a note of a Tone.Part (kind "note")  *)
(* or a scheduleOnce callback (kind "auto"), owned by the JamPlaybackEngine*)
(* ("jam"), by the single-recording engine of recording eng ("se") or by   *)
(* the clip session ("ls").                                                *)

NoteEvent(own, eng, part, idx, time) ==
  [kind |-> "note", own |-> own, eng |-> eng, part |-> part, idx |-> idx, time |-> time]

OnceEvent(own, eng, time) ==
  [kind |-> "auto", own |-> own, eng |-> eng, part |-> 0, idx |-> 0, time |-> time]

\* Transport.start(): a started transport stays as it is; otherwise the clock
\* starts from the current position and "start" is emitted on its next loop.
\* Transport listeners only overwrite isPlaying, isPaused and the tracking
\* interval, so the emitted events not yet dispatched are held by the last one.
TransportStart(S) ==
  IF S.tState = "started" THEN S
  ELSE [S EXCEPT !.tState = "started", !.pendingEvt = "start"]

\* Transport.toggle() in the place of Transport.stop()
TransportToggle(S) ==
  IF S.tState = "started"
  THEN [S EXCEPT !.tState = "stopped", !.tPos = 0, !.pendingEvt = "stop"]
  ELSE [S EXCEPT !.tState = "started", !.pendingEvt = "start"]

\* Transport.stop(): the clock stops, the position returns to 0, "stop" is emitted
TransportStop(S) ==
  [S EXCEPT !.tState = "stopped", !.tPos = 0, !.pendingEvt = "stop"]

\* Transport.pause(): only a started transport pauses; the position is kept
TransportPause(S) ==
  IF S.tState = "started" THEN [S EXCEPT !.tState = "paused"] ELSE S

\* Transport.cancel(): every scheduled event is cleared, fired or not
TransportCancel(S) == [S EXCEPT !.timeline = << >>, !.due = << >>]

\* Transport.position = p / Transport.seconds = p
TransportSetPosition(S, p) == [S EXCEPT !.tPos = p]

\* Transport.scheduleOnce(cb, "+d"): d after the transport's current position
TransportScheduleOnce(S, own, eng, d) ==
  [S EXCEPT !.timeline = Append(@, OnceEvent(own, eng, S.tPos + d))]

\* part.stop() / part.dispose(): the part's events leave the transport
RemovePartEvents(S, own, eng, part) ==
  LET Other(ev) == ~(ev.kind = "note" /\ ev.own = own /\ ev.eng = eng /\ ev.part = part)
  IN [S EXCEPT !.timeline = SelectSeq(@, Other), !.due = SelectSeq(@, Other)]

\* part.start(0) of a part with the given note times: its notes are scheduled
SchedulePartEvents(S, own, eng, part, times) ==
  [S EXCEPT !.timeline =
     @ \o [i \in 1..Len(times) |-> NoteEvent(own, eng, part, i, times[i])]]


-----------------------------------------------------------------------------
(* JamPlaybackEngine (jamPlayback.js) *)

EmptyMap == [x \in {} |-> 0]

\* constructor()
JamConstructed ==
  [isPlaying |-> FALSE, isPaused |-> FALSE, currentTime |-> 0, duration |-> 0,
   hasSession |-> FALSE, listening |-> FALSE, tracking |-> FALSE,
   initPc |-> "none", instPending |-> {}, error |-> FALSE,
   instMade |-> [name \in INSTRUMENTS |-> 0], instDisposed |-> {}]

TrackIds(tracks) == {tracks[i].id : i \in 1..Len(tracks)}

TrackById(tracks, id) == tracks[CHOOSE i \in 1..Len(tracks) : tracks[i].id = id]

\* the times of makeEvents (lib/jamSession.js), relative to the clip
PartTimesRelative(track) ==
  LET notes == Recording(track.recordingId).notes
  IN [i \in 1..Len(notes) |-> MsToTime(notes[i].timestamp)]

\* createParts / recreateTrackPart: the events of a track's part, at
\* Math.max(0, track.startTime + note.timestamp / 1000)
PartTimes(track) ==
  LET notes == Recording(track.recordingId).notes
  IN [i \in 1..Len(notes) |-> Max(0, track.startTime + MsToTime(notes[i].timestamp))]

\* velocity: Math.max(0, Math.min(1, (note.velocity || 0.5) * (track.volume || 1)))
\* of a note velocity and a track volume in hundredths; the result is in
\* ten-thousandths, so that the product is exact
EventVelocity(velocity, volume) ==
  Max(0, Min(10000, (IF velocity = 0 THEN 50 ELSE velocity)
                      * (IF volume = 0 THEN 100 ELSE volume)))

\* the events array a Tone.Part of the track is constructed with
PartEvents(track) ==
  LET notes == Recording(track.recordingId).notes
  IN [i \in 1..Len(notes) |->
        [time |-> PartTimes(track)[i],
         velocity |-> EventVelocity(notes[i].velocity, track.volume)]]

\* this.instruments.get(name): the instance the engine holds under the name,
\* the last one INSTRUMENTS[name]() made
HeldInstrument(S, name) == [name |-> name, n |-> S.jam.instMade[name]]

\* the times of the events a part holds
EventTimes(part) == [i \in 1..Len(part.events) |-> part.events[i].time]

\* The Tone.Part callback of a track: TRUE when it calls instrument.play
PartCallbackMuteOnly(tracks, track) == ~track.muted

PartCallbackPlays(tracks, track) ==
  IF track.muted THEN FALSE
  ELSE LET soloTracks == {i \in 1..Len(tracks) : tracks[i].solo}
       IN IF Cardinality(soloTracks) > 0 /\ ~track.solo THEN FALSE ELSE TRUE

\* createParts(): a part for every track whose recording and instrument exist
CreateParts(S) ==
  LET built == {id \in TrackIds(S.jamTracks) :
                  /\ TrackById(S.jamTracks, id).recordingId \in StoredIds
                  /\ Recording(TrackById(S.jamTracks, id).recordingId).instrument \in S.jamInst}
  IN [S EXCEPT !.jamParts =
        [id \in built |->
           [started |-> FALSE, gen |-> 1,
            events |-> PartEvents(TrackById(S.jamTracks, id)),
            inst |-> HeldInstrument(S,
                       Recording(TrackById(S.jamTracks, id).recordingId).instrument)]]]

\* setupTransportListeners()
SetupTransportListeners(S) == [S EXCEPT !.jam.listening = TRUE]

\* transportStartListener / transportStopListener, on the emitted event
TransportListener(S, evt) ==
  IF ~S.jam.listening THEN S
  ELSE IF evt = "start"
       THEN [S EXCEPT !.jam.isPlaying = TRUE, !.jam.isPaused = FALSE, !.jam.tracking = TRUE]
       ELSE [S EXCEPT !.jam.isPlaying = FALSE, !.jam.isPaused = FALSE, !.jam.tracking = FALSE]

\* the instrument types createInstruments() collects from the tracks
InstrumentTypes(tracks) ==
  {Recording(tracks[i].recordingId).instrument :
     i \in {k \in 1..Len(tracks) : tracks[k].recordingId \in StoredIds}}

\* the catch block of init(): onError(error), return false
JamInitFailed(S) == [S EXCEPT !.jam.initPc = "failed", !.jam.error = TRUE]

\* init(jamSession) up to the await of createInstruments(); a track whose
\* recording is missing makes loadAllRecordings throw and init return false.
\* createInstruments() starts the load of every type the registry knows
\* and throws for one it does not know: Promise.all rejects, init returns
\* false, and the loads that were started still end in instruments.set.
JamInitStart(S, session) ==
  LET S1 == [S EXCEPT !.jam.hasSession = TRUE, !.jam.duration = session.duration,
                      !.jamTracks = session.tracks]
      missing == {i \in 1..Len(session.tracks) : session.tracks[i].recordingId \notin StoredIds}
      types == InstrumentTypes(session.tracks)
      S2 == [S1 EXCEPT !.jam.instMade =
               [name \in INSTRUMENTS |-> IF name \in types THEN @[name] + 1 ELSE @[name]]]
  IN IF missing # {} THEN JamInitFailed(S1)
     ELSE IF types \ INSTRUMENTS # {}
          THEN [JamInitFailed(S2) EXCEPT !.jam.instPending = types \cap INSTRUMENTS]
     ELSE IF types = {}
          THEN [SetupTransportListeners(CreateParts(S1)) EXCEPT !.jam.initPc = "done"]
          ELSE [S2 EXCEPT !.jam.initPc = "instruments", !.jam.instPending = types]

\* createInstruments(): one instrument became ready; after the last one init
\* goes on with createParts() and setupTransportListeners()
JamInstrumentReady(S, name) ==
  LET S1 == [S EXCEPT !.jamInst = @ \cup {name}, !.jam.instPending = @ \ {name}]
  IN IF S1.jam.instPending = {} /\ S1.jam.initPc = "instruments"
     THEN [SetupTransportListeners(CreateParts(S1)) EXCEPT !.jam.initPc = "done"]
     ELSE S1

\* this.parts.forEach((part) => part.start(0)), in the order of the map
RECURSIVE StartParts(_, _)
StartParts(S, tracks) ==
  IF tracks = << >> THEN S
  ELSE LET t == Head(tracks)
           S1 == IF t.id \in DOMAIN S.jamParts /\ ~S.jamParts[t.id].started
                 THEN [SchedulePartEvents(S, "jam", 0, t.id, EventTimes(S.jamParts[t.id]))
                         EXCEPT !.jamParts[t.id].started = TRUE]
                 ELSE S
       IN StartParts(S1, Tail(tracks))

\* the transport loses the events of the parts, the parts are not stopped
StopPartsOnTransportOnly(S) ==
  LET Other(ev) == ~(ev.kind = "note" /\ ev.own = "jam")
  IN [S EXCEPT !.timeline = SelectSeq(@, Other), !.due = SelectSeq(@, Other)]

\* this.parts.forEach((part) => part.stop(...))
StopParts(S) ==
  LET Other(ev) == ~(ev.kind = "note" /\ ev.own = "jam")
  IN [S EXCEPT !.timeline = SelectSeq(@, Other), !.due = SelectSeq(@, Other),
               !.jamParts = [id \in DOMAIN @ |-> [@[id] EXCEPT !.started = FALSE]]]

\* stop() that also disposes the instruments, as dispose() does
JamStopDisposing(S) ==
  LET S1 == TransportSetPosition(TransportCancel(TransportStop(S)), 0)
  IN [StopParts(S1) EXCEPT !.jam.isPlaying = FALSE, !.jam.isPaused = FALSE,
                           !.jam.currentTime = 0, !.jam.tracking = FALSE,
                           !.jam.instDisposed = @ \cup S.jamInst]

\* stop()
JamStop(S) ==
  LET S1 == TransportSetPosition(TransportCancel(TransportStop(S)), 0)
  IN [StopParts(S1) EXCEPT !.jam.isPlaying = FALSE, !.jam.isPaused = FALSE,
                           !.jam.currentTime = 0, !.jam.tracking = FALSE]

\* play() without its branch for a paused engine
JamPlayFresh(S) ==
  LET S1 == [TransportSetPosition(S, 0) EXCEPT !.jam.currentTime = 0]
      S2 == StartParts(S1, S1.jamTracks)
      S3 == IF S2.jam.duration > 0
            THEN TransportScheduleOnce(S2, "jam", 0, S2.jam.duration)
            ELSE S2
  IN TransportStart(S3)

\* play(), after the audio context is running
JamPlayBody(S) ==
  IF S.jam.isPaused THEN TransportStart(S)
  ELSE LET S1 == [TransportSetPosition(S, 0) EXCEPT !.jam.currentTime = 0]
           S2 == StartParts(S1, S1.jamTracks)
           S3 == IF S2.jam.duration > 0
                 THEN TransportScheduleOnce(S2, "jam", 0, S2.jam.duration)
                 ELSE S2
       IN TransportStart(S3)

\* play(): throws without a session; suspends at await Tone.start() while
\* the audio context is not running
JamPlay(S) ==
  IF ~S.jam.hasSession THEN S
  ELSE IF S.ctx # "running" THEN [S EXCEPT !.jamCalls = @ + 1]
  ELSE JamPlayBody(S)

\* a suspended play() goes on once Tone.start() has resolved
JamPlayResumed(S) ==
  JamPlayBody([S EXCEPT !.ctx = "running", !.jamCalls = @ - 1])

\* pause()
JamPause(S) ==
  IF ~S.jam.isPlaying THEN S
  ELSE [TransportPause(S) EXCEPT !.jam.isPaused = TRUE, !.jam.isPlaying = FALSE,
                                 !.jam.tracking = FALSE]

\* the clamp of seek(): isNaN(t) ? 0 : t, then into [0, duration]
SeekClamp(t, duration) ==
  LET validTime == IF t.nan THEN 0 ELSE t.v
  IN Max(0, Min(validTime, duration))

\* seek(timeInSeconds)
JamSeek(S, t) ==
  LET clampedTime == SeekClamp(t, S.jam.duration)
      wasPlaying == S.jam.isPlaying
      S1 == JamStop(S)
      S2 == TransportSetPosition([S1 EXCEPT !.jam.currentTime = clampedTime],
                                 Max(0, clampedTime))
  IN IF wasPlaying THEN JamPlay(S2) ELSE S2

\* the setInterval callback of startTimeTracking(); ended is TRUE when it
\* stopped the engine and called onPlaybackEnd
JamTimeTrackEnds(S) ==
  LET t == Max(0, Min(Max(0, S.tPos), S.jam.duration))
  IN t >= S.jam.duration /\ S.jam.duration > 0

JamTimeTrack(S) ==
  LET t == Max(0, Min(Max(0, S.tPos), S.jam.duration))
      S1 == [S EXCEPT !.jam.currentTime = t]
  IN IF JamTimeTrackEnds(S) THEN JamStop(S1) ELSE S1

\* every part built anew, as createParts() does
RecreateTrackPartOfAll(S, trackId) == CreateParts(S)

\* recreateTrackPart(trackId)
RecreateTrackPart(S, trackId) ==
  LET track == TrackById(S.jamTracks, trackId)
      S1 == IF trackId \in DOMAIN S.jamParts
            THEN RemovePartEvents(S, "jam", 0, trackId) ELSE S
      hasBoth == /\ track.recordingId \in StoredIds
                 /\ Recording(track.recordingId).instrument \in S1.jamInst
      gen == IF trackId \in DOMAIN S1.jamParts THEN S1.jamParts[trackId].gen + 1 ELSE 1
      S2 == [S1 EXCEPT !.jamParts =
               [id \in DOMAIN @ \cup {trackId} |->
                  IF id = trackId
                  THEN [started |-> FALSE, gen |-> gen, events |-> PartEvents(track),
                        inst |-> HeldInstrument(S1, Recording(track.recordingId).instrument)]
                  ELSE @[id]]]
  IN IF ~hasBoth THEN S1
     ELSE IF S2.jam.isPlaying
          THEN [SchedulePartEvents(S2, "jam", 0, trackId, EventTimes(S2.jamParts[trackId]))
                  EXCEPT !.jamParts[trackId].started = TRUE]
          ELSE S2

\* Object.assign(track, updates): u.fields names the properties updates holds
AssignTrack(track, u) ==
  [track EXCEPT !.muted = IF "muted" \in u.fields THEN u.muted ELSE @,
                !.solo = IF "solo" \in u.fields THEN u.solo ELSE @,
                !.startTime = IF "startTime" \in u.fields THEN u.startTime ELSE @,
                !.trackIndex = IF "trackIndex" \in u.fields THEN u.trackIndex ELSE @,
                !.volume = IF "volume" \in u.fields THEN u.volume ELSE @]

\* updateTrack(trackId, updates)
JamUpdateTrack(S, trackId, u) ==
  IF ~S.jam.hasSession THEN S
  ELSE IF trackId \notin TrackIds(S.jamTracks) THEN S
  ELSE LET S1 == [S EXCEPT !.jamTracks =
                    [i \in 1..Len(@) |-> IF @[i].id = trackId THEN AssignTrack(@[i], u)
                                         ELSE @[i]]]
       IN IF "startTime" \in u.fields THEN RecreateTrackPart(S1, trackId) ELSE S1


-----------------------------------------------------------------------------
(* Single-recording playback engine (createPlaybackEngine, lib/playback)   *)
(* se[e] is the closure of the engine of recording e: instrument and       *)
(* currentPart hold the number of the instance (0 for null); instMade,     *)
(* instDisposed, partsMade and liveParts tell which instruments and        *)
(* Tone.Parts the engine has constructed and which of them are disposed.   *)

SeConstructed ==
  [instrument |-> 0, isReady |-> FALSE, isPlaying |-> FALSE, currentPart |-> 0,
   instMade |-> 0, instDisposed |-> {}, partsMade |-> 0, liveParts |-> {}]

\* a suspended play() is [eng, pc, via]: pc "ready" inside await init(),
\* pc "ctx" at await Tone.start(); via "toggle" when togglePlayback awaits it
SeCallKeys == [eng : RecIds, pc : {"ready", "ctx"}, via : {"api", "toggle"}]

NoSeCalls == [k \in SeCallKeys |-> 0]

SeCall(e, pc, via) == [eng |-> e, pc |-> pc, via |-> via]

\* the events play() builds: note.timestamp / 1000
SeEventTimes(e) ==
  LET notes == Recording(e).notes
  IN [i \in 1..Len(notes) |-> MsToTime(notes[i].timestamp)]

\* recording.duration / 1000 + 0.1
SeAutoStopDelay(e) == MsToTime(Recording(e).duration) + 1

\* stop()
SeStop(S, e) ==
  IF ~S.se[e].isPlaying THEN S
  ELSE LET part == S.se[e].currentPart
           S1 == IF part # 0
                 THEN [RemovePartEvents(S, "se", e, part) EXCEPT
                         !.se[e].liveParts = @ \ {part}, !.se[e].currentPart = 0]
                 ELSE S
           S2 == TransportCancel(TransportSetPosition(TransportStop(S1), 0))
       IN [S2 EXCEPT !.se[e].isPlaying = FALSE]

\* play() from "Reset the global Tone.js clock" to its end
SePlayBody(S, e) ==
  LET S1 == TransportSetPosition(TransportStop(S), 0)
      part == S1.se[e].partsMade + 1
      S2 == [S1 EXCEPT !.se[e].partsMade = part, !.se[e].currentPart = part,
                       !.se[e].liveParts = @ \cup {part}]
      S3 == SchedulePartEvents(S2, "se", e, part, SeEventTimes(e))
      S4 == [TransportStart(S3) EXCEPT !.se[e].isPlaying = TRUE]
  IN TransportScheduleOnce(S4, "se", e, SeAutoStopDelay(e))

\* play() after await init(): Tone.start() is awaited while the context is
\* not running
SeAfterInit(S, e, via) ==
  IF S.ctx # "running"
  THEN [S EXCEPT !.seCalls[SeCall(e, "ctx", via)] = @ + 1]
  ELSE SePlayBody(S, e)

\* init() up to await instrument.ensureReady(), for an engine that is not ready
SeInitStart(S, e) ==
  [S EXCEPT !.se[e].instMade = @ + 1, !.se[e].instrument = S.se[e].instMade + 1]

\* play()
SePlay(S, e, via) ==
  IF S.se[e].isPlaying THEN S
  ELSE IF ~S.se[e].isReady
       THEN [SeInitStart(S, e) EXCEPT !.seCalls[SeCall(e, "ready", via)] = @ + 1]
       ELSE SeAfterInit(S, e, via)

\* TRUE when play() returns without suspending
SePlayCompletes(S, e) ==
  S.se[e].isPlaying \/ (S.se[e].isReady /\ S.ctx = "running")

\* a play() suspended in init() goes on: isReady = true, then the rest of play()
SeReadyResumed(S, e, via) ==
  SeAfterInit([S EXCEPT !.seCalls[SeCall(e, "ready", via)] = @ - 1,
                        !.se[e].isReady = TRUE], e, via)

\* a play() suspended at await Tone.start() goes on
SeCtxResumed(S, e, via) ==
  SePlayBody([S EXCEPT !.seCalls[SeCall(e, "ctx", via)] = @ - 1, !.ctx = "running"], e)

\* dispose()
SeDispose(S, e) ==
  LET S1 == SeStop(S, e)
      S2 == IF S1.se[e].instrument # 0
            THEN [S1 EXCEPT !.se[e].instDisposed = @ \cup {S1.se[e].instrument},
                            !.se[e].instrument = 0]
            ELSE S1
  IN [S2 EXCEPT !.se[e].isReady = FALSE]

-----------------------------------------------------------------------------
(* Clip session (createJamSession, lib/jamSession.js of the clip board)    *)

LsConstructed == [parts |-> {}, partsMade |-> 0, started |-> FALSE, engines |-> {}]

\* the clips play(clips) is given: both recordings, drums one unit later
LsClips == << [recordingId |-> 1, startTimeSec |-> 0],
              [recordingId |-> 2, startTimeSec |-> 1] >>

\* a suspended play(clips) is [pc, i]: pc "start" at await Tone.start(),
\* "loaded" at await Tone.loaded(), "engine" in ensureEngine of clip i
LsCallKeys == [pc : {"start", "loaded", "engine"}, i : 0..Len(LsClips)]

NoLsCalls == [k \in LsCallKeys |-> 0]

LsCall(pc, i) == [pc |-> pc, i |-> i]

\* clearParts()
LsClearParts(S) ==
  LET Other(ev) == ~(ev.kind = "note" /\ ev.own = "ls")
  IN [S EXCEPT !.timeline = SelectSeq(@, Other), !.due = SelectSeq(@, Other),
               !.ls.parts = {}]

\* makeEvents(rec) and part.start(clip.startTimeSec) for clip i
LsBuildPart(S, i) ==
  LET clip == LsClips[i]
      notes == Recording(clip.recordingId).notes
      times == [k \in 1..Len(notes) |-> clip.startTimeSec + MsToTime(notes[k].timestamp)]
      part == S.ls.partsMade + 1
  IN [SchedulePartEvents(S, "ls", 0, part, times) EXCEPT
        !.ls.partsMade = part, !.ls.parts = @ \cup {part}]

\* the end of play(clips), after the loop
LsPlayEnd(S) ==
  LET S1 == IF ~S.ls.started
            THEN [TransportSetPosition(S, 0) EXCEPT !.ls.started = TRUE]
            ELSE S
  IN TransportStart(S1)

\* the loop of play(clips) from clip i on, until it suspends in ensureEngine
RECURSIVE LsLoop(_, _)
LsLoop(S, i) ==
  IF i > Len(LsClips) THEN LsPlayEnd(S)
  ELSE IF LsClips[i].recordingId \notin RecIds THEN LsLoop(S, i + 1)
  ELSE IF LsClips[i].recordingId \notin S.ls.engines
       THEN [S EXCEPT !.lsCalls[LsCall("engine", i)] = @ + 1]
       ELSE LsLoop(LsBuildPart(S, i), i + 1)

\* play(clips) up to its first await
LsPlay(S) ==
  IF S.ctx # "running" THEN [S EXCEPT !.lsCalls[LsCall("start", 0)] = @ + 1]
  ELSE [S EXCEPT !.lsCalls[LsCall("loaded", 0)] = @ + 1]

\* play(clips) goes on after one of its awaits
LsResumed(S, k) ==
  LET S1 == [S EXCEPT !.lsCalls[k] = @ - 1]
  IN IF k.pc = "start"
     THEN [S1 EXCEPT !.ctx = "running", !.lsCalls[LsCall("loaded", 0)] = @ + 1]
     ELSE IF k.pc = "loaded" THEN LsLoop(LsClearParts(S1), 1)
     ELSE LsLoop(LsBuildPart([S1 EXCEPT !.ls.engines = @ \cup {LsClips[k.i].recordingId}],
                             k.i), k.i + 1)

\* pause()
LsPause(S) == TransportPause(S)

\* stop()
LsStop(S) ==
  LET S1 == TransportCancel(TransportSetPosition(TransportStop(S), 0))
  IN [LsClearParts(S1) EXCEPT !.ls.started = FALSE]

-----------------------------------------------------------------------------
(* History of the run.  op is the last step taken, trk / seek / flag what  *)
(* it was given or observed, sinceStop whether play() has been called since*)
(* the last stop() of the JamPlaybackEngine returned, sounded whether one  *)
(* of its notes reached instrument.play since then, ended whether          *)
(* onPlaybackEnd was called since the last play(), ops the number of user  *)
(* operations so far, of the budget that the run allows, stops the number *)
(* of stop() calls in a row on the JamPlaybackEngine (up to 2) when the    *)
(* first of them found it playing (after play(), flag tells whether the    *)
(* step before it was a stop()), disposed the single-recording engines   *)
(* that dispose() was called on.  After handleAddRecording, seek.v is the  *)
(* lane the drop asked for.                                                *)

NoSeek == [nan |-> FALSE, v |-> 0]

HistInit(budget) ==
  [op |-> "init", trk |-> 0, seek |-> NoSeek, flag |-> FALSE,
   sinceStop |-> "nostop", sounded |-> FALSE, ended |-> FALSE, ops |-> 0,
   budget |-> budget, stops |-> 0, disposed |-> {}]

Step(h, op, trk, flag) ==
  [h EXCEPT !.op = op, !.trk = trk, !.flag = flag, !.seek = NoSeek, !.stops = 0]

UserStep(h, op, trk, flag) == [Step(h, op, trk, flag) EXCEPT !.ops = @ + 1]

\* a handler runs between two ticks of the transport, never inside one
CanCall == due = << >>

UserCan == CanCall /\ hist.ops < hist.budget

-----------------------------------------------------------------------------
(* Steps of the transport *)

\* one tick of a started transport: the events scheduled at the position
\* become due, in timeline order, and the position moves on
Tick ==
  /\ tState = "started" /\ due = << >> /\ pendingEvt = "none" /\ tPos <= MaxPos
  /\ due' = SelectSeq(timeline, LAMBDA ev : ev.time = tPos)
  /\ tPos' = tPos + 1
  /\ hist' = Step(hist, "tick", 0, FALSE)
  /\ UNCHANGED << boardVars, tState, timeline, pendingEvt, ctx, jamVars, seVars,
                  listVars, lsVars >>

\* the clock's loop emits the state changes to the listeners
DispatchTransportEvents ==
  /\ pendingEvt # "none" /\ due = << >>
  /\ Install([TransportListener(Cur, pendingEvt) EXCEPT !.pendingEvt = "none"])
  /\ hist' = Step(hist, "dispatch", 0, FALSE)
  /\ UNCHANGED << boardVars, listVars >>

-----------------------------------------------------------------------------
(* Steps of the JamPlaybackEngine *)

\* JamBoard.initializePlaybackEngine, run by the effect on the number of
\* tracks: engine.init(jamSession)
JamInitBegin ==
  /\ CanCall /\ jam.initPc = "none"
  /\ Install(JamInitStart(Cur, jamSession))
  /\ hist' = Step(hist, "jamInit", 0, FALSE)
  /\ UNCHANGED << boardVars, listVars >>

JamInitInstrumentReady ==
  /\ CanCall /\ jam.instPending # {}
  /\ \E name \in jam.instPending : Install(JamInstrumentReady(Cur, name))
  /\ hist' = Step(hist, "jamInstReady", 0, FALSE)
  /\ UNCHANGED << boardVars, listVars >>

JamPlayCall ==
  /\ UserCan /\ jam.initPc = "done"
  /\ Install(JamPlay(Cur))
  /\ hist' = [UserStep(hist, "jamPlay", 0, hist.op = "jamStop") EXCEPT !.sinceStop = "played",
                                                        !.ended = FALSE]
  /\ UNCHANGED << boardVars, listVars >>

JamPlayResume ==
  /\ CanCall /\ jamCalls > 0
  /\ Install(JamPlayResumed(Cur))
  /\ hist' = Step(hist, "jamPlayResume", 0, FALSE)
  /\ UNCHANGED << boardVars, listVars >>

JamPauseCall ==
  /\ UserCan /\ jam.initPc = "done"
  /\ Install(JamPause(Cur))
  /\ hist' = UserStep(hist, "jamPause", 0, jam.isPlaying)
  /\ UNCHANGED << boardVars, listVars >>

JamStopCall ==
  /\ UserCan /\ jam.initPc = "done"
  /\ Install(JamStop(Cur))
  /\ hist' = [UserStep(hist, "jamStop", 0, FALSE) EXCEPT
                !.sinceStop = "stopped", !.sounded = FALSE,
                !.stops = IF hist.op = "jamStop" /\ hist.stops >= 1 THEN 2
                          ELSE IF jam.isPlaying /\ tState = "started" THEN 1
                          ELSE 0]
  /\ UNCHANGED << boardVars, listVars >>

SeekInputs == {[nan |-> FALSE, v |-> n] : n \in (0 - 1)..MaxSeek} \cup {[nan |-> TRUE, v |-> 0]}

JamSeekCall ==
  /\ UserCan /\ jam.initPc = "done"
  /\ \E t \in SeekInputs :
       /\ Install(JamSeek(Cur, t))
       /\ hist' = [UserStep(hist, "jamSeek", 0, jam.isPlaying) EXCEPT
                     !.seek = t,
                     !.sinceStop = IF jam.isPlaying THEN "played" ELSE "stopped",
                     !.sounded = FALSE,
                     !.ended = IF jam.isPlaying THEN FALSE ELSE @]
  /\ UNCHANGED << boardVars, listVars >>

NoUpdate ==
  [fields |-> {}, muted |-> FALSE, solo |-> FALSE, startTime |-> 0, trackIndex |-> 0,
   volume |-> 100]

UpdateInputs ==
  {[NoUpdate EXCEPT !.fields = {"muted"}, !.muted = b] : b \in BOOLEAN}
  \cup {[NoUpdate EXCEPT !.fields = {"solo"}, !.solo = b] : b \in BOOLEAN}
  \cup {[NoUpdate EXCEPT !.fields = {"startTime"}, !.startTime = t] : t \in 0..1}
  \cup {[NoUpdate EXCEPT !.fields = {"volume"}, !.volume = 50]}

JamUpdateTrackCall ==
  /\ UserCan
  /\ \E id \in 1..MaxTracks, u \in UpdateInputs :
       /\ Install(JamUpdateTrack(Cur, id, u))
       /\ hist' = UserStep(hist, "jamUpdateTrack", id, "startTime" \in u.fields)
  /\ UNCHANGED << boardVars, listVars >>

JamTimeTrackTick ==
  /\ CanCall /\ jam.tracking
  /\ Install(JamTimeTrack(Cur))
  /\ hist' = IF JamTimeTrackEnds(Cur)
             THEN [Step(hist, "jamTimeTrack", 0, TRUE) EXCEPT
                     !.sinceStop = "stopped", !.sounded = FALSE, !.ended = TRUE]
             ELSE Step(hist, "jamTimeTrack", 0, FALSE)
  /\ UNCHANGED << boardVars, listVars >>

\* the velocity the callback of a part gives instrument.play for an event of
\* the transport: event.velocity of the part's events array
PlayedVelocity(parts, ev) == parts[ev.part].events[ev.idx].velocity

\* the transport invokes the callback of a part of the engine for one note
FireJamNote ==
  /\ due # << >> /\ Head(due).kind = "note" /\ Head(due).own = "jam"
  /\ LET ev == Head(due)
         plays == PartCallbackPlays(jamTracks, TrackById(jamTracks, ev.part))
     IN /\ due' = Tail(due)
        /\ hist' = [Step(hist, "fireJamNote", ev.part, plays) EXCEPT
                      !.sounded = @ \/ plays]
  /\ UNCHANGED << boardVars, tState, tPos, timeline, pendingEvt, ctx, jamVars,
                  seVars, listVars, lsVars >>

\* the transport invokes the scheduleOnce callback of play(): stop(), onPlaybackEnd()
FireJamAutoStop ==
  /\ due # << >> /\ Head(due).kind = "auto" /\ Head(due).own = "jam"
  /\ Install(JamStop(Cur))
  /\ hist' = [Step(hist, "fireJamAuto", 0, FALSE) EXCEPT
                !.sinceStop = "stopped", !.sounded = FALSE, !.ended = TRUE]
  /\ UNCHANGED << boardVars, listVars >>


-----------------------------------------------------------------------------
(* Steps of the single-recording engines and of the recordings list *)

\* setPlaybackStates after await engine.play():
\* Object.fromEntries(Object.keys(prev).map((id) => [id, id === recordingId]))
StatesAfterPlay(prev, recordingId) == [id \in DOMAIN prev |-> id = recordingId]

\* setPlaybackStates((prev) => ({ ...prev, [recordingId]: false }))
StatesAfterStop(prev, recordingId) ==
  [id \in DOMAIN prev \cup {recordingId} |-> IF id = recordingId THEN FALSE ELSE prev[id]]

\* the other recordings togglePlayback stops: the entries of playbackStates
\* that are true
PlayingEntries(states) == {id \in DOMAIN states : states[id]}

RECURSIVE StopEngines(_, _)
StopEngines(S, ids) ==
  IF ids = {} THEN S
  ELSE LET id == CHOOSE x \in ids : TRUE
       IN StopEngines(IF id \in DOMAIN S.se THEN SeStop(S, id) ELSE S, ids \ {id})

\* getEngine(recordingId): the engine of the recording, created on first use
GetEngine(S, r) ==
  IF r \in DOMAIN S.se THEN S
  ELSE [S EXCEPT !.se = [e \in DOMAIN @ \cup {r} |-> IF e = r THEN SeConstructed ELSE @[e]]]

\* engine.play() called directly
SePlayCall ==
  /\ UserCan
  /\ \E e \in DOMAIN se :
       /\ Install(SePlay(Cur, e, "api"))
       /\ hist' = UserStep(hist, "sePlay", e, FALSE)
  /\ UNCHANGED << boardVars, listVars >>

\* engine.stop() called directly
SeStopCall ==
  /\ UserCan
  /\ \E e \in DOMAIN se :
       /\ Install(SeStop(Cur, e))
       /\ hist' = UserStep(hist, "seStop", e, FALSE)
  /\ UNCHANGED << boardVars, listVars >>

\* engine.dispose() called directly
SeDisposeCall ==
  /\ UserCan
  /\ \E e \in DOMAIN se :
       /\ Install(SeDispose(Cur, e))
       /\ hist' = [UserStep(hist, "seDispose", e, FALSE) EXCEPT !.disposed = @ \cup {e}]
  /\ UNCHANGED << boardVars, listVars >>

\* togglePlayback(recordingId), up to the first await of engine.play()
TogglePlayback ==
  /\ UserCan
  /\ \E r \in RecIds :
       LET S0 == GetEngine(Cur, r)
           isPlaying == r \in DOMAIN playbackStates /\ playbackStates[r]
       IN /\ enginesRef' = enginesRef \cup {r}
          /\ IF isPlaying
             THEN /\ Install(SeStop(S0, r))
                  /\ playbackStates' = StatesAfterStop(playbackStates, r)
                  /\ hist' = UserStep(hist, "toggleStop", r, FALSE)
             ELSE LET S1 == StopEngines(S0, PlayingEntries(playbackStates))
                  IN /\ Install(SePlay(S1, r, "toggle"))
                     /\ playbackStates' = IF SePlayCompletes(S1, r)
                                          THEN StatesAfterPlay(playbackStates, r)
                                          ELSE playbackStates
                     /\ hist' = UserStep(hist, "togglePlay", r, FALSE)
  /\ UNCHANGED boardVars

\* instrument.ensureReady() resolved for a suspended play()
SeReadyResume ==
  /\ CanCall
  /\ \E k \in SeCallKeys :
       /\ k.pc = "ready" /\ seCalls[k] > 0
       /\ Install(SeReadyResumed(Cur, k.eng, k.via))
       /\ playbackStates' = IF k.via = "toggle" /\ ctx = "running"
                            THEN StatesAfterPlay(playbackStates, k.eng)
                            ELSE playbackStates
       /\ hist' = Step(hist, "seReadyResume", k.eng, FALSE)
  /\ UNCHANGED << boardVars, enginesRef >>

\* Tone.start() resolved for a suspended play()
SeCtxResume ==
  /\ CanCall
  /\ \E k \in SeCallKeys :
       /\ k.pc = "ctx" /\ seCalls[k] > 0
       /\ Install(SeCtxResumed(Cur, k.eng, k.via))
       /\ playbackStates' = IF k.via = "toggle"
                            THEN StatesAfterPlay(playbackStates, k.eng)
                            ELSE playbackStates
       /\ hist' = Step(hist, "seCtxResume", k.eng, FALSE)
  /\ UNCHANGED << boardVars, enginesRef >>

\* the transport invokes the callback of a part of a single-recording engine;
\* flag tells whether the engine held an instrument to play it on
FireSeNote ==
  /\ due # << >> /\ Head(due).kind = "note" /\ Head(due).own = "se"
  /\ due' = Tail(due)
  /\ hist' = Step(hist, "fireSeNote", Head(due).eng, se[Head(due).eng].instrument # 0)
  /\ UNCHANGED << boardVars, tState, tPos, timeline, pendingEvt, ctx, jamVars,
                  seVars, listVars, lsVars >>

\* the transport invokes the scheduleOnce callback of play(): stop().  The
\* callback is a once-event: it leaves the timeline when it is invoked.
FireSeAutoStop ==
  /\ due # << >> /\ Head(due).kind = "auto" /\ Head(due).own = "se"
  /\ LET ev == Head(due)
         S1 == [Cur EXCEPT !.due = Tail(@),
                           !.timeline = SelectSeq(@, LAMBDA x : x # ev)]
     IN /\ Install(SeStop(S1, ev.eng))
        /\ hist' = Step(hist, "fireSeAuto", ev.eng, FALSE)
  /\ UNCHANGED << boardVars, listVars >>

-----------------------------------------------------------------------------
(* Steps of the clip session *)

LsPlayCall ==
  /\ UserCan
  /\ Install(LsPlay(Cur))
  /\ hist' = UserStep(hist, "lsPlay", 0, FALSE)
  /\ UNCHANGED << boardVars, listVars >>

LsResume ==
  /\ CanCall
  /\ \E k \in LsCallKeys : lsCalls[k] > 0 /\ Install(LsResumed(Cur, k))
  /\ hist' = Step(hist, "lsResume", 0, FALSE)
  /\ UNCHANGED << boardVars, listVars >>

LsPauseCall ==
  /\ UserCan
  /\ Install(LsPause(Cur))
  /\ hist' = UserStep(hist, "lsPause", 0, FALSE)
  /\ UNCHANGED << boardVars, listVars >>

LsStopCall ==
  /\ UserCan
  /\ Install(LsStop(Cur))
  /\ hist' = UserStep(hist, "lsStop", 0, FALSE)
  /\ UNCHANGED << boardVars, listVars >>

\* the transport invokes the callback of a part of the clip session
FireLsNote ==
  /\ due # << >> /\ Head(due).kind = "note" /\ Head(due).own = "ls"
  /\ due' = Tail(due)
  /\ hist' = Step(hist, "fireLsNote", 0, TRUE)
  /\ UNCHANGED << boardVars, tState, tPos, timeline, pendingEvt, ctx, jamVars,
                  seVars, listVars, lsVars >>

-----------------------------------------------------------------------------
(* Steps of the jam board (JamBoard component) *)

\* An engine of the board is "init" while initializePlaybackEngine awaits
\* its init(), "attached" once init() has built its parts and put its
\* listeners on the transport, "disposed" after its dispose().

\* if (playbackEngineRef.current) playbackEngineRef.current.dispose()
DisposeCurrent(engines, ref) ==
  IF ref = 0 THEN engines ELSE [engines EXCEPT ![ref] = "disposed"]

\* initializePlaybackEngine() up to await engine.init(jamSession)
initializePlaybackEngine(engines, ref) == Append(DisposeCurrent(engines, ref), "init")

\* the effect on jamSession.tracks.length, run after the render in which
\* the length changed
TrackCountEffect(engines, ref, oldLength, newLength) ==
  IF newLength # oldLength /\ newLength > 0
  THEN initializePlaybackEngine(engines, ref) ELSE engines

\* handleAddRecording(recording, startTime, trackIndex), as TrackArea.handleDrop
\* calls it
HandleAddRecording ==
  /\ UserCan /\ Len(jamSession.tracks) < MaxTracks
  /\ \E r \in RecIds, startTime \in 0..MaxStart, trackIndex \in 0..MaxLane :
       LET jamTrack == createJamTrack(Recording(r), startTime, trackIndex, nextTrackId)
       IN /\ jamSession' = addTrackToSession(jamSession, jamTrack)
          /\ hist' = [UserStep(hist, "addRecording", nextTrackId, FALSE)
                        EXCEPT !.seek = [nan |-> FALSE, v |-> trackIndex]]
  /\ nextTrackId' = nextTrackId + 1
  /\ boardEngines' = TrackCountEffect(boardEngines, engineRef,
                         Len(jamSession.tracks), Len(jamSession.tracks) + 1)
  /\ UNCHANGED << libCall, engineRef, pageVars, toneVars, jamVars, seVars, listVars,
                  lsVars >>

\* handleRemoveTrack(trackId)
HandleRemoveTrack ==
  /\ UserCan
  /\ \E id \in TrackIds(jamSession.tracks) :
       /\ jamSession' = removeTrackFromSession(jamSession, id)
       /\ hist' = UserStep(hist, "removeTrack", id, FALSE)
  /\ boardEngines' = TrackCountEffect(boardEngines, engineRef,
                         Len(jamSession.tracks), Len(jamSession.tracks) - 1)
  /\ UNCHANGED << nextTrackId, libCall, engineRef, pageVars, toneVars, jamVars, seVars,
                  listVars, lsVars >>

\* handlePlay(): without an engine in the ref it awaits initializePlaybackEngine()
HandlePlay ==
  /\ UserCan
  /\ boardEngines' = IF engineRef = 0
                     THEN initializePlaybackEngine(boardEngines, engineRef)
                     ELSE boardEngines
  /\ hist' = UserStep(hist, "handlePlay", 0, engineRef = 0)
  /\ UNCHANGED << jamSession, nextTrackId, libCall, engineRef, pageVars, toneVars, jamVars,
                  seVars, listVars, lsVars >>

\* SimpleDragBlock.handleMouseMove: onUpdate({startTime, trackIndex}), both
\* clamped at 0
DragUpdates ==
  {[NoUpdate EXCEPT !.fields = {"startTime", "trackIndex"},
                    !.startTime = t, !.trackIndex = l] :
     t \in 0..MaxStart, l \in 0..MaxLane}

\* handleUpdateTrack(trackId, updates): the session with the track replaced by
\* {...track, ...updates}, then updateTrack on the engine of the ref
HandleUpdateTrack ==
  /\ UserCan
  /\ \E id \in TrackIds(jamSession.tracks), u \in DragUpdates :
       LET updatedTracks == [i \in 1..Len(jamSession.tracks) |->
                               IF jamSession.tracks[i].id = id
                               THEN AssignTrack(jamSession.tracks[i], u)
                               ELSE jamSession.tracks[i]]
       IN /\ jamSession' = updateJamSession([jamSession EXCEPT !.tracks = updatedTracks])
          /\ Install(IF engineRef # 0 THEN JamUpdateTrack(Cur, id, u) ELSE Cur)
          /\ hist' = UserStep(hist, "updateTrack", id, FALSE)
  /\ UNCHANGED << nextTrackId, libCall, engVars, pageVars, listVars >>

\* initializePlaybackEngine() after await engine.init(jamSession) returned
\* true: playbackEngineRef.current = engine
InitializeEngineDone ==
  /\ CanCall
  /\ \E i \in 1..Len(boardEngines) :
       /\ boardEngines[i] = "init"
       /\ boardEngines' = [boardEngines EXCEPT ![i] = "attached"]
       /\ engineRef' = i
       /\ hist' = Step(hist, "initializeDone", i, FALSE)
  /\ UNCHANGED << jamSession, nextTrackId, libCall, pageVars, toneVars, jamVars, seVars,
                  listVars, lsVars >>

-----------------------------------------------------------------------------
(* The page (app/page.js): the recorder.  A key handler is the closure of  *)
(* the render it was registered in: it holds that render's selected,       *)
(* isRecording and recordingStartTime, and reads currentRecordingRef and   *)
(* Date.now() when it runs.  Notes are MIDI numbers (C1 = 24, C3 = 48).    *)
(* A note and a recording also carry what the run knows about them: at,    *)
(* the time the note was captured, sess, the recording session its key was *)
(* pressed in (0 when idle), startedAt / stoppedAt of the recording.       *)

\* the rows with the first key of the middle row bound on the top row as well
rowsWithRepeat ==
  [top |-> << "q", "w", "e", "r", "t", "y", "u", "i", "o", "p" >>,
   mid |-> << "q", "s", "d", "f", "g", "h", "j", "k", "l" >>,
   bot |-> << "z", "x", "c", "v", "b", "n", "m" >>]

rows ==
  [top |-> << "q", "w", "e", "r", "t", "y", "u", "i", "o", "p" >>,
   mid |-> << "a", "s", "d", "f", "g", "h", "j", "k", "l" >>,
   bot |-> << "z", "x", "c", "v", "b", "n", "m" >>]

InRow(r, k) == \E n \in 1..Len(rows[r]) : rows[r][n] = k

\* the keys that have an entry in noteMap, indexMap and drumKeyToNote
RowKeys ==
  {rows.top[n] : n \in 1..Len(rows.top)} \cup {rows.mid[n] : n \in 1..Len(rows.mid)}
     \cup {rows.bot[n] : n \in 1..Len(rows.bot)}

RowOf(k) == CHOOSE r \in {"top", "mid", "bot"} : InRow(r, k)

\* index of the key in its row, from 0 as in rows.x.map((k, i) => ...)
KeyIndex(k) == (CHOOSE n \in 1..Len(rows[RowOf(k)]) : rows[RowOf(k)][n] = k) - 1

\* indexMap.get(k)
indexMap(k) == [row |-> RowOf(k), i |-> KeyIndex(k), len |-> Len(rows[RowOf(k)])]

\* noteMap.get(k): notes("C5" | "C4" | "C3", n)[i], the start transposed by i
noteMap(k) ==
  LET start == IF RowOf(k) = "top" THEN 72 ELSE IF RowOf(k) = "mid" THEN 60 ELSE 48
  IN [note |-> start + KeyIndex(k), row |-> RowOf(k)]

\* baseCols = C1 D1 E1 F1 G1 A1 B1
baseCols == << 24, 26, 28, 29, 31, 33, 35 >>

\* drumKeyToNote.get(k): the base columns, then crash (D2) on the mid row and
\* ride (C2) on the top row
drumKeyToNote(k) ==
  IF KeyIndex(k) < 7 THEN baseCols[KeyIndex(k) + 1]
  ELSE IF RowOf(k) = "mid" THEN 38 ELSE 36

\* createEmptyRecording()
createEmptyRecording == [instrument |-> "null", notes |-> << >>, duration |-> 0]

NullTime == [null |-> TRUE, v |-> 0]

\* Date.now() - recordingStartTime (null counts as 0)
Elapsed(t, startTime) == t - (IF startTime.null THEN 0 ELSE startTime.v)

\* the state of Page after mount, the instrument still loading
PageMounted ==
  [selected |-> "piano", ready |-> FALSE, isRecording |-> FALSE,
   recordingStartTime |-> NullTime, current |-> createEmptyRecording,
   session |-> 0, sessions |-> 0, startedAt |-> 0, emptyStop |-> FALSE]

\* the closure of the onKeyDown handler registered by the current render
KeyClosure(P, k) ==
  [key |-> k, selected |-> P.selected, isRecording |-> P.isRecording,
   recordingStartTime |-> P.recordingStartTime, sess |-> P.session]

\* the key has a sound on the handler's instrument: note && info for drums,
\* m for a pitched instrument
KeyBound(c) == c.key \in RowKeys

\* the handler builds noteData and appends it: if (isRecording && noteData)
KeyCapturesAnyBound(c) == KeyBound(c)

KeyCaptures(c) == c.isRecording /\ KeyBound(c)

\* noteData of a captured key at time t
NoteData(c, t) ==
  LET info == indexMap(c.key)
  IN IF c.selected = "drums"
     THEN [instrument |-> c.selected, note |-> drumKeyToNote(c.key), row |-> info.row,
           i |-> info.i, len |-> info.len,
           timestamp |-> Elapsed(t, c.recordingStartTime), velocity |-> 95,
           at |-> t, sess |-> c.sess]
     ELSE [instrument |-> c.selected, note |-> noteMap(c.key).note,
           row |-> noteMap(c.key).row, i |-> info.i, len |-> info.len,
           timestamp |-> Elapsed(t, c.recordingStartTime), velocity |-> 90,
           at |-> t, sess |-> c.sess]

\* onKeyDown after its await: instrument.play, then the capture
OnKeyDownBody(P, c, t) ==
  IF KeyCaptures(c)
  THEN [P EXCEPT !.current.instrument = c.selected,
                 !.current.notes = Append(@, NoteData(c, t))]
  ELSE P

\* the handlers suspended at await Tone.start() go on, oldest first
RECURSIVE ResumeKeyCalls(_, _, _)
ResumeKeyCalls(P, calls, t) ==
  IF calls = << >> THEN P
  ELSE ResumeKeyCalls(OnKeyDownBody(P, Head(calls), t), Tail(calls), t)

\* toggleRecording(), not recording: start
RecorderStart(P, t) ==
  [P EXCEPT !.current = createEmptyRecording,
            !.recordingStartTime = [null |-> FALSE, v |-> t],
            !.isRecording = TRUE,
            !.sessions = @ + 1, !.session = P.sessions + 1, !.startedAt = t]

\* the recording toggleRecording() finalizes
FinalRecording(P, t) ==
  [instrument |-> P.current.instrument, notes |-> P.current.notes,
   duration |-> Elapsed(t, P.recordingStartTime),
   sess |-> P.session, startedAt |-> P.startedAt, stoppedAt |-> t]

\* setRecordings of toggleRecording(): every finalized recording is added
AddedAlways(list, final) == Append(list, final)

\* setRecordings of toggleRecording(): added if it has notes
AddedRecordings(list, final) ==
  IF Len(final.notes) > 0 THEN Append(list, final) ELSE list

\* toggleRecording(), recording: stop and finalize
RecorderStop(P) ==
  [P EXCEPT !.isRecording = FALSE, !.current = createEmptyRecording,
            !.recordingStartTime = NullTime, !.session = 0,
            !.emptyStop = (Len(P.current.notes) = 0)]

\* the instrument of the page finished loading: setReady(true)
PageInstrumentReady ==
  /\ ~page.ready
  /\ page' = [page EXCEPT !.ready = TRUE]
  /\ hist' = Step(hist, "pageReady", 0, FALSE)
  /\ UNCHANGED << jamSession, nextTrackId, libCall, engVars, storage, recordings, now, keyCalls, toneVars,
                  jamVars, seVars, listVars, lsVars >>

\* Date.now() moves on
ClockTick ==
  /\ now < MaxNow
  /\ now' = now + 1
  /\ hist' = Step(hist, "clock", 0, FALSE)
  /\ UNCHANGED << jamSession, nextTrackId, libCall, engVars, storage, page, recordings, keyCalls, toneVars,
                  jamVars, seVars, listVars, lsVars >>

\* a click on the record button (disabled until ready)
ToggleRecording ==
  /\ hist.ops < hist.budget /\ page.ready
  /\ IF ~page.isRecording
     THEN /\ page' = RecorderStart(page, now)
          /\ recordings' = recordings
          /\ hist' = UserStep(hist, "recStart", 0, page.emptyStop)
     ELSE /\ page' = RecorderStop(page)
          /\ recordings' = AddedRecordings(recordings, FinalRecording(page, now))
          /\ hist' = UserStep(hist, "recStop", 0, Len(page.current.notes) = 0)
  /\ UNCHANGED << jamSession, nextTrackId, libCall, engVars, storage, now, keyCalls, toneVars,
                  jamVars, seVars, listVars, lsVars >>

KeyInputs == {"q", "k", "z", "1"}

\* a keydown event: the handler returns if not ready, suspends at
\* await Tone.start() while the audio context is not running, else runs
OnKeyDown ==
  /\ hist.ops < hist.budget
  /\ \E k \in KeyInputs :
       LET c == KeyClosure(page, k)
       IN /\ IF ~page.ready THEN UNCHANGED << page, keyCalls >>
             ELSE IF ctx # "running"
                  THEN /\ Len(keyCalls) < MaxKeyCalls
                       /\ keyCalls' = Append(keyCalls, c) /\ page' = page
                  ELSE /\ page' = OnKeyDownBody(page, c, now) /\ keyCalls' = keyCalls
          /\ hist' = [UserStep(hist, "keyDown", 0, page.ready /\ ctx = "running" /\ KeyCaptures(c))
                        EXCEPT !.seek = [nan |-> ~KeyBound(c), v |-> c.sess]]
  /\ UNCHANGED << jamSession, nextTrackId, libCall, engVars, storage, recordings, now, toneVars,
                  jamVars, seVars, listVars, lsVars >>

\* Tone.start() resolved: the suspended handlers go on
OnKeyDownResume ==
  /\ keyCalls # << >>
  /\ page' = ResumeKeyCalls(page, keyCalls, now)
  /\ keyCalls' = << >>
  /\ ctx' = "running"
  /\ hist' = Step(hist, "keyResume", 0, \E n \in 1..Len(keyCalls) : KeyCaptures(keyCalls[n]))
  /\ UNCHANGED << jamSession, nextTrackId, libCall, engVars, storage, recordings, now, tState, tPos, timeline,
                  due, pendingEvt, jamVars, seVars, listVars, lsVars >>

-----------------------------------------------------------------------------
(* lib/storage: the recordings in localStorage, as JSON.  A JSON value is  *)
(* tagged by t: "null", "undef", "nan", "num" (n), "str" (s), "arr"        *)
(* (items), "obj" (keys, vals in the order of insertion).  A JSON text is  *)
(* the sequence of its tokens; numbers are kept in hundredths.             *)

JNull == [t |-> "null"]
JUndefined == [t |-> "undef"]
JNaN == [t |-> "nan"]
JNum(n) == [t |-> "num", n |-> n]
JStr(str) == [t |-> "str", s |-> str]
JArr(items) == [t |-> "arr", items |-> items]
JObj(keys, vals) == [t |-> "obj", keys |-> keys, vals |-> vals]

Punct(c) == [k |-> "punct", c |-> c]
NullToken == [k |-> "null"]
NumToken(n) == [k |-> "num", n |-> n]
StrToken(str) == [k |-> "str", s |-> str]

\* JSON.stringify of a scalar writing null for every falsy value
StringifyFalsyAsNull(v) ==
  IF v.t = "num" /\ v.n # 0 THEN << NumToken(v.n) >>
  ELSE IF v.t = "str" /\ v.s # "" THEN << StrToken(v.s) >>
  ELSE << NullToken >>

\* JSON.stringify of a scalar: NaN and, inside an array, undefined are null
StringifyScalar(v) ==
  IF v.t = "num" THEN << NumToken(v.n) >>
  ELSE IF v.t = "str" THEN << StrToken(v.s) >>
  ELSE << NullToken >>

RECURSIVE Stringify(_), StringifyItems(_), StringifyProps(_, _, _)

\* JSON.stringify(value)
Stringify(v) ==
  IF v.t = "arr" THEN << Punct("[") >> \o StringifyItems(v.items) \o << Punct("]") >>
  ELSE IF v.t = "obj"
       THEN << Punct("{") >> \o StringifyProps(v.keys, v.vals, TRUE) \o << Punct("}") >>
  ELSE StringifyScalar(v)

StringifyItems(items) ==
  IF items = << >> THEN << >>
  ELSE Stringify(Head(items))
         \o (IF Len(items) > 1 THEN << Punct(",") >> \o StringifyItems(Tail(items))
             ELSE << >>)

\* the properties of an object; one whose value is undefined is left out
StringifyProps(keys, vals, first) ==
  IF keys = << >> THEN << >>
  ELSE IF Head(vals).t = "undef" THEN StringifyProps(Tail(keys), Tail(vals), first)
  ELSE (IF first THEN << >> ELSE << Punct(",") >>)
         \o << StrToken(Head(keys)), Punct(":") >> \o Stringify(Head(vals))
         \o StringifyProps(Tail(keys), Tail(vals), FALSE)

RECURSIVE ParseValue(_), ParseItems(_, _), ParseProps(_, _, _)

\* JSON.parse: the value at the head of the tokens and the tokens after it
ParseValue(toks) ==
  LET tok == Head(toks)
  IN IF tok.k = "null" THEN [v |-> JNull, rest |-> Tail(toks)]
     ELSE IF tok.k = "num" THEN [v |-> JNum(tok.n), rest |-> Tail(toks)]
     ELSE IF tok.k = "str" THEN [v |-> JStr(tok.s), rest |-> Tail(toks)]
     ELSE IF tok.c = "[" THEN ParseItems(Tail(toks), << >>)
     ELSE ParseProps(Tail(toks), << >>, << >>)

ParseItems(toks, acc) ==
  IF Head(toks) = Punct("]") THEN [v |-> JArr(acc), rest |-> Tail(toks)]
  ELSE IF Head(toks) = Punct(",") THEN ParseItems(Tail(toks), acc)
  ELSE LET item == ParseValue(toks)
       IN ParseItems(item.rest, Append(acc, item.v))

ParseProps(toks, keys, vals) ==
  IF Head(toks) = Punct("}") THEN [v |-> JObj(keys, vals), rest |-> Tail(toks)]
  ELSE IF Head(toks) = Punct(",") THEN ParseProps(Tail(toks), keys, vals)
  ELSE LET prop == ParseValue(Tail(Tail(toks)))
       IN ParseProps(prop.rest, Append(keys, Head(toks).s), Append(vals, prop.v))

\* localStorage.getItem of a key that was never set
NoItem == << >>

\* saveRecordings(recordings), localStorage.setItem succeeding
saveRecordings(list) == Stringify(JArr(list))

\* loadRecordings()
loadRecordings(item) ==
  IF item = NoItem THEN << >>
  ELSE LET parsed == ParseValue(item).v
       IN IF parsed.t # "arr" THEN << >> ELSE parsed.items

\* the note onKeyDown captures, as the object that is stored
StoredNote(instrument, note, timestamp) ==
  JObj(<< "instrument", "note", "row", "i", "len", "timestamp", "duration", "velocity" >>,
       << JStr(instrument), JStr(note), JStr("mid"), JNum(0), JNum(9), JNum(timestamp),
          JStr("8n"), JNum(IF instrument = "drums" THEN 95 ELSE 90) >>)

\* a finalized recording, as the object that is stored
StoredRecording(id, instrument, notes, duration) ==
  JObj(<< "id", "name", "instrument", "notes", "duration" >>,
       << JStr(id), JStr(""), JStr(instrument), JArr(notes), JNum(duration) >>)

\* the sequences of 1..n elements of a set
SeqsUpTo(S, n) == UNION {[1..m -> S] : m \in 1..n}

\* the timestamps of the stored notes
StoredStamps == {0, 1}

\* the ids of the recordings of a list, by position
StoredIdOf(n) == IF n = 1 THEN "a" ELSE IF n = 2 THEN "b" ELSE IF n = 3 THEN "c" ELSE "d"

\* what was recorded: one or more notes of one instrument
RecordedTakes ==
  [instrument : {"piano", "drums"}, stamps : SeqsUpTo(StoredStamps, MaxNotes)]

\* the recording at position n of a list, the duration past the last note
StoredTake(n, take) ==
  StoredRecording(StoredIdOf(n), take.instrument,
     [k \in 1..Len(take.stamps) |-> StoredNote(take.instrument, "C4", take.stamps[k])],
     take.stamps[Len(take.stamps)] + 1)

\* toggleRecording, stop: setRecordings((list) => [...list, final]) with a
\* final recording whose id is not in the list
AddStoredRecording ==
  /\ CanCall /\ Len(recordings) < MaxSaved /\ hist.ops = 0
  /\ \E take \in RecordedTakes :
       recordings' = Append(recordings, StoredTake(Len(recordings) + 1, take))
  /\ hist' = Step(hist, "addStored", 0, FALSE)
  /\ UNCHANGED << jamSession, nextTrackId, libCall, engVars, page, now, keyCalls, storage,
                  toneVars, jamVars, seVars, listVars, lsVars >>

\* the effect on [recordings]: saveRecordings(recordings) for a non-empty
\* list; ok is FALSE when localStorage.setItem throws (quota), which
\* saveRecordings catches
SaveRecordings ==
  /\ UserCan /\ Len(recordings) > 0
  /\ \E ok \in BOOLEAN :
       /\ storage' = IF ok THEN saveRecordings(recordings) ELSE storage
       /\ hist' = UserStep(hist, "save", 0, ok)
  /\ UNCHANGED << jamSession, nextTrackId, libCall, engVars, page, recordings, now, keyCalls,
                  toneVars, jamVars, seVars, listVars, lsVars >>

\* the effect of the mount: setRecordings(loadRecordings())
LoadRecordings ==
  /\ UserCan
  /\ recordings' = loadRecordings(storage)
  /\ hist' = UserStep(hist, "load", 0, hist.op = "save" /\ hist.flag)
  /\ UNCHANGED << jamSession, nextTrackId, libCall, engVars, page, now, keyCalls, storage,
                  toneVars, jamVars, seVars, listVars, lsVars >>

-----------------------------------------------------------------------------
(* Initial states and specifications *)

\* the page right after mount
InitPage ==
  /\ page = PageMounted /\ recordings = << >> /\ now = 0 /\ keyCalls = << >>
  /\ storage = NoItem

\* JamBoard right after mount: useRef(null), no engine created
InitEngineRef == boardEngines = << >> /\ engineRef = 0 /\ libCall = NoLibCall

InitTone ==
  /\ tState = "stopped" /\ tPos = 0 /\ timeline = << >> /\ due = << >>
  /\ pendingEvt = "none" /\ ctx = "suspended"

InitJam ==
  /\ jam = JamConstructed /\ jamTracks = << >> /\ jamParts = EmptyMap
  /\ jamInst = {} /\ jamCalls = 0

InitOthers ==
  /\ se = EmptyMap /\ seCalls = NoSeCalls /\ enginesRef = {}
  /\ playbackStates = EmptyMap /\ ls = LsConstructed /\ lsCalls = NoLsCalls

\* the board right after mount: an empty session, no engine
InitBoard ==
  /\ jamSession = createEmptyJamSession /\ nextTrackId = 1
  /\ InitPage /\ InitEngineRef /\ InitTone /\ InitJam /\ InitOthers
  /\ hist = HistInit(MaxBoardOps)

NextBoard ==
  \/ HandleAddRecording \/ HandleRemoveTrack \/ HandleUpdateTrack
  \/ HandlePlay \/ InitializeEngineDone

SpecBoard == InitBoard /\ [][NextBoard]_vars

\* the sessions a JamPlaybackEngine is given: the piano recording on lane 0
\* and the drums recording on lane 1, each dropped at some start time
JamSessionInputs ==
  {addTrackToSession(
     addTrackToSession(createEmptyJamSession, createJamTrack(Recording(1), s1, 0, 1)),
     createJamTrack(Recording(2), s2, 1, 2)) : s1 \in 0..1, s2 \in 0..1}

InitJamEngine ==
  /\ jamSession \in JamSessionInputs /\ nextTrackId = 3
  /\ InitPage /\ InitEngineRef /\ InitTone /\ InitJam /\ InitOthers /\ hist = HistInit(MaxOps)

NextJam ==
  \/ JamInitBegin \/ JamInitInstrumentReady
  \/ JamPlayCall \/ JamPlayResume \/ JamPauseCall \/ JamStopCall \/ JamSeekCall
  \/ JamUpdateTrackCall \/ JamTimeTrackTick
  \/ Tick \/ DispatchTransportEvents \/ FireJamNote \/ FireJamAutoStop

SpecJam == InitJamEngine /\ [][NextJam]_vars


-----------------------------------------------------------------------------
(* C1..C4: placement of tracks, seek, mute/solo, stop *)

Overlaps(a, b) ==
  a.startTime < b.startTime + b.duration /\ b.startTime < a.startTime + a.duration

\* C1: after any sequence of track additions, the tracks placed on one lane
\* have pairwise non-overlapping [startTime, startTime + duration) intervals.
C1_NoOverlapOnLane ==
  \A i, j \in 1..Len(jamSession.tracks) :
     (i < j /\ jamSession.tracks[i].trackIndex = jamSession.tracks[j].trackIndex)
        => ~Overlaps(jamSession.tracks[i], jamSession.tracks[j])

\* C2: right after seek(t) on a playing engine the transport runs from the
\* clamped t and currentTime is the clamped t; playback is not back at 0.
C2_SeekKeepsPosition ==
  (hist.op = "jamSeek" /\ hist.flag)
     => /\ jam.currentTime = SeekClamp(hist.seek, jam.duration)
        /\ tPos = SeekClamp(hist.seek, jam.duration)
        /\ tState = "started"

\* C3: a fired event of track T reaches instrument.play if and only if T is
\* not muted and either no track of the session is soloed or T is soloed.
C3_MuteSoloSuppression ==
  hist.op = "fireJamNote" =>
     LET T == TrackById(jamTracks, hist.trk)
         anySolo == \E i \in 1..Len(jamTracks) : jamTracks[i].solo
     IN hist.flag <=> (~T.muted /\ (~anySolo \/ T.solo))

\* a note of a track that is neither muted nor soloed was fired while another
\* track was soloed, and stayed silent
C3_Witness ==
  /\ hist.op = "fireJamNote" /\ ~hist.flag
  /\ ~TrackById(jamTracks, hist.trk).muted /\ ~TrackById(jamTracks, hist.trk).solo
  /\ \E i \in 1..Len(jamTracks) : jamTracks[i].solo /\ jamTracks[i].id # hist.trk

\* C4: after stop() has returned and until play() is called again, the
\* transport is not running and no track event reaches instrument.play.
C4_NothingAfterStop ==
  hist.sinceStop = "stopped" => (tState # "started" /\ ~hist.sounded)


-----------------------------------------------------------------------------
(* Specifications of the single-recording engines, the recordings list and *)
(* all the engines on the one transport                                    *)

\* an engine per recording, constructed and not yet used
InitSingle ==
  /\ jamSession = createEmptyJamSession /\ nextTrackId = 1
  /\ InitPage /\ InitEngineRef /\ InitTone /\ InitJam /\ hist = HistInit(MaxOps)
  /\ se = [e \in RecIds |-> SeConstructed] /\ seCalls = NoSeCalls
  /\ enginesRef = RecIds /\ playbackStates = EmptyMap
  /\ ls = LsConstructed /\ lsCalls = NoLsCalls

TransportSteps == Tick \/ DispatchTransportEvents

NextSingle ==
  \/ SePlayCall \/ SeStopCall \/ SeDisposeCall \/ SeReadyResume \/ SeCtxResume
  \/ FireSeNote \/ FireSeAutoStop \/ TransportSteps

SpecSingle == InitSingle /\ [][NextSingle]_vars

\* the recordings list right after mount: no engine yet, playbackStates = {}
InitList ==
  /\ jamSession = createEmptyJamSession /\ nextTrackId = 1
  /\ InitPage /\ InitEngineRef /\ InitTone /\ InitJam /\ InitOthers /\ hist = HistInit(MaxOps)

NextList ==
  \/ TogglePlayback \/ SeReadyResume \/ SeCtxResume
  \/ FireSeNote \/ FireSeAutoStop \/ TransportSteps

SpecList == InitList /\ [][NextList]_vars


\* every engine of the page on the one transport: a JamPlaybackEngine for a
\* session of the board (piano at 0, drums one step later), the engines of
\* the recordings and a clip session
InitEngines ==
  /\ jamSession \in {j \in JamSessionInputs :
                       j.tracks[1].startTime = 0 /\ j.tracks[2].startTime = 1}
  /\ nextTrackId = 3
  /\ InitPage /\ InitEngineRef /\ InitTone /\ InitJam /\ hist = HistInit(MaxEngineOps)
  /\ se = [e \in RecIds |-> SeConstructed] /\ seCalls = NoSeCalls
  /\ enginesRef = RecIds /\ playbackStates = EmptyMap
  /\ ls = LsConstructed /\ lsCalls = NoLsCalls

NextEngines ==
  \/ JamInitBegin \/ JamInitInstrumentReady
  \/ JamPlayCall \/ JamPlayResume \/ JamPauseCall \/ JamStopCall \/ JamSeekCall
  \/ JamTimeTrackTick \/ FireJamNote \/ FireJamAutoStop
  \/ SePlayCall \/ SeStopCall \/ SeReadyResume \/ SeCtxResume
  \/ FireSeNote \/ FireSeAutoStop
  \/ LsPlayCall \/ LsResume \/ LsPauseCall \/ LsStopCall \/ FireLsNote
  \/ TransportSteps

SpecEngines == InitEngines /\ [][NextEngines]_vars

\* the transport keeps ticking and what was awaited resolves
FairTransport ==
  /\ WF_vars(Tick) /\ WF_vars(DispatchTransportEvents)
  /\ WF_vars(FireSeNote) /\ WF_vars(FireSeAutoStop)
  /\ WF_vars(FireJamNote) /\ WF_vars(FireJamAutoStop)

InitSingleLive ==
  /\ jamSession = createEmptyJamSession /\ nextTrackId = 1
  /\ InitPage /\ InitEngineRef /\ InitTone /\ InitJam /\ hist = HistInit(MaxLiveOps)
  /\ se = [e \in RecIds |-> SeConstructed] /\ seCalls = NoSeCalls
  /\ enginesRef = RecIds /\ playbackStates = EmptyMap
  /\ ls = LsConstructed /\ lsCalls = NoLsCalls

SpecSingleLive ==
  /\ InitSingleLive /\ [][NextSingle]_vars
  /\ FairTransport /\ WF_vars(SeReadyResume) /\ WF_vars(SeCtxResume)

\* the JamPlaybackEngine with no explicit stop()
NextJamAuto ==
  \/ JamInitBegin \/ JamInitInstrumentReady
  \/ JamPlayCall \/ JamPlayResume \/ JamPauseCall \/ JamSeekCall
  \/ JamTimeTrackTick
  \/ Tick \/ DispatchTransportEvents \/ FireJamNote \/ FireJamAutoStop

InitJamAuto ==
  /\ jamSession \in JamSessionInputs /\ nextTrackId = 3
  /\ InitPage /\ InitEngineRef /\ InitTone /\ InitJam /\ InitOthers /\ hist = HistInit(MaxLiveOps)

SpecJamAuto ==
  /\ InitJamAuto /\ [][NextJamAuto]_vars
  /\ FairTransport /\ WF_vars(JamPlayResume) /\ WF_vars(JamInitInstrumentReady)

-----------------------------------------------------------------------------
(* C5..C10: stop, at most one playback, preparation, auto-stop *)

JamObserved == << jam, jamParts, jamInst, tState, tPos, timeline >>

JamAtRest ==
  /\ ~jam.isPlaying /\ ~jam.isPaused /\ jam.currentTime = 0 /\ ~jam.tracking
  /\ tState = "stopped" /\ tPos = 0 /\ timeline = << >>
  /\ \A id \in DOMAIN jamParts : ~jamParts[id].started

\* C5: stop() called again right after stop(), on a single-recording engine,
\* on the JamPlaybackEngine or on the clip session, leaves the state the first
\* stop() produced (flags, position, parts, instruments, transport); stop() on
\* an engine that is already stopped changes nothing.
C5_StopIdempotent ==
  [][ /\ (hist'.op = "jamStop" /\ (hist.op = "jamStop" \/ JamAtRest))
         => JamObserved' = JamObserved
      /\ (hist'.op = "seStop" /\ ((hist.op = "seStop" /\ hist.trk = hist'.trk)
                                   \/ ~se[hist'.trk].isPlaying))
         => << se, tState, tPos, timeline >>' = << se, tState, tPos, timeline >>
      /\ (hist'.op = "lsStop" /\ hist.op = "lsStop")
         => << ls, tState, tPos, timeline >>' = << ls, tState, tPos, timeline >>
    ]_vars

\* stop() was called on the JamPlaybackEngine right after a stop() that had
\* ended a run, and the engine is at rest
C5_Witness ==
  /\ hist.op = "jamStop" /\ hist.stops = 2 /\ JamAtRest /\ jam.initPc = "done"

\* C6: an engine has at most one live Tone.Part and at most one armed
\* auto-stop at any time.
C6_AtMostOnePlayback ==
  \A e \in DOMAIN se :
     /\ Cardinality(se[e].liveParts) <= 1
     /\ Cardinality({i \in 1..Len(timeline) :
                       timeline[i].kind = "auto" /\ timeline[i].own = "se"
                       /\ timeline[i].eng = e}) <= 1

\* C7: an engine that was never disposed has constructed at most one instrument.
C7_OneInstrument ==
  \A e \in DOMAIN se : se[e].instDisposed = {} => se[e].instMade <= 1

\* C8: an engine that is playing is eventually not playing.
C8_AutoStops ==
  \A e \in RecIds : [](se[e].isPlaying => <>(~se[e].isPlaying))

\* C9: at most one single-recording engine is playing at any time.
C9_OnePlaying ==
  Cardinality({e \in DOMAIN se : se[e].isPlaying}) <= 1

JamEnded ==
  ~jam.isPlaying /\ ~jam.isPaused /\ jam.currentTime = 0 /\ hist.ended

\* play() has started a run: the transport runs the parts of a session that
\* has a duration
JamRunStarted ==
  tState = "started" /\ jam.duration > 0

\* C10: with no explicit stop(), a run of duration > 0 that play() started
\* (from stopped, after a pause, or restarted by seek) eventually is paused
\* by the user or ends: isPlaying = false, currentTime = 0, onPlaybackEnd
\* called.
C10_AutoStop ==
  [](JamRunStarted => <>(jam.isPaused \/ JamEnded))

-----------------------------------------------------------------------------
(* The recorder of the page *)

InitRecorder ==
  /\ jamSession = createEmptyJamSession /\ nextTrackId = 1
  /\ page \in {[PageMounted EXCEPT !.selected = i] : i \in {"piano", "drums"}}
  /\ recordings = << >> /\ now = 0 /\ keyCalls = << >> /\ storage = NoItem
  /\ InitEngineRef /\ InitTone /\ InitJam /\ InitOthers /\ hist = HistInit(MaxPageOps)

NextRecorder ==
  \/ PageInstrumentReady \/ ClockTick \/ ToggleRecording
  \/ OnKeyDown \/ OnKeyDownResume

SpecRecorder == InitRecorder /\ [][NextRecorder]_vars

\* C11: in every recording of the library the note timestamps are
\* non-decreasing in list order.
C11_TimestampsMonotone ==
  \A r \in 1..Len(recordings) :
     \A i, j \in 1..Len(recordings[r].notes) :
        i < j => recordings[r].notes[i].timestamp <= recordings[r].notes[j].timestamp

\* C12: a recording of the library has duration = stop time - start time and
\* holds notes of its own session only, each with timestamp = capture time -
\* start time, at most the duration.
C12_FinalizedRecording ==
  \A r \in 1..Len(recordings) :
     LET R == recordings[r]
     IN /\ R.duration = R.stoppedAt - R.startedAt
        /\ \A i \in 1..Len(R.notes) :
              /\ R.notes[i].sess = R.sess
              /\ R.notes[i].timestamp = R.notes[i].at - R.startedAt
              /\ R.notes[i].timestamp <= R.duration

\* C13: a stop with no captured note adds nothing to the library and leaves
\* the recorder idle; a start begins an empty capture.
C13_EmptyDiscarded ==
  [][ /\ (hist'.op = "recStop" /\ Len(page.current.notes) = 0)
         => (recordings' = recordings /\ ~page'.isRecording)
      /\ hist'.op = "recStart"
         => (page'.isRecording /\ page'.current.notes = << >> /\ recordings' = recordings)
    ]_vars

\* a recording was started right after a stop that had captured nothing
C13_Witness ==
  /\ hist.op = "recStart" /\ hist.flag /\ page.isRecording
  /\ page.sessions >= 2 /\ recordings = << >>

-----------------------------------------------------------------------------
(* C15..C20: lane of an added track; pause, seek, init and dispose of the  *)
(* engines                                                                 *)

\* the sessions of the runs on init(): the piano recording on lane 0 and, on
\* lane 1, the drums recording, the recording with the unknown instrument,
\* or a recording that is no longer stored
InitSessionInputs ==
  {addTrackToSession(
     addTrackToSession(createEmptyJamSession, createJamTrack(Recording(1), 0, 0, 1)),
     createJamTrack(Recording(r), s2, 1, 2)) : r \in {2, 3, DeletedRecId}, s2 \in 0..1}

InitJamWithSessions ==
  /\ jamSession \in InitSessionInputs /\ nextTrackId = 3
  /\ InitPage /\ InitEngineRef /\ InitTone /\ InitJam /\ InitOthers /\ hist = HistInit(MaxOps)

SpecJamInit == InitJamWithSessions /\ [][NextJam]_vars

\* a track whose recording is not stored / whose instrument is not registered
RecordingMissing(track) == track.recordingId \notin StoredIds

InstrumentUnknown(track) ==
  ~RecordingMissing(track) /\ Recording(track.recordingId).instrument \notin INSTRUMENTS

\* init() has returned and no instrument load of it is still under way
JamInitSettled == jam.initPc \in {"done", "failed"} /\ jam.instPending = {}

\* C18: when a track of the session refers to a recording that is missing at
\* init, init succeeds, no part is built for that track and a part is built
\* for every other track.
C18_MissingRecordingSkipped ==
  (JamInitSettled /\ \E i \in 1..Len(jamTracks) : RecordingMissing(jamTracks[i]))
     => /\ jam.initPc = "done"
        /\ \A i \in 1..Len(jamTracks) :
              jamTracks[i].id \in DOMAIN jamParts
                 <=> ~RecordingMissing(jamTracks[i]) /\ ~InstrumentUnknown(jamTracks[i])

\* C19: when a track's recording names an instrument the registry does not
\* know, init reports the error to its caller, and the instrument and the
\* part of every other track are built.
C19_UnknownInstrumentIsolated ==
  (/\ JamInitSettled
   /\ \E i \in 1..Len(jamTracks) : InstrumentUnknown(jamTracks[i])
   /\ \A i \in 1..Len(jamTracks) : ~RecordingMissing(jamTracks[i]))
     => /\ jam.error
        /\ \A i \in 1..Len(jamTracks) :
              ~InstrumentUnknown(jamTracks[i])
                 => /\ Recording(jamTracks[i].recordingId).instrument \in jamInst
                    /\ jamTracks[i].id \in DOMAIN jamParts

\* the track the last handleAddRecording appended
AddedTrack(session) == session.tracks[Len(session.tracks)]

\* C15: a track added with requested lane L, in hist.seek.v, lies on L when
\* it overlaps no track of L, and otherwise on the lowest lane above L where
\* it overlaps none: the lane findAvailableTrackIndex gives for the session
\* it is added to.
C15_AddedOnFreeLane ==
  [][hist'.op = "addRecording"
       => AddedTrack(jamSession').trackIndex =
            findAvailableTrackIndex(jamSession, hist'.seek.v,
               AddedTrack(jamSession').startTime, AddedTrack(jamSession').duration)]_vars

\* C16: pause() on a playing engine leaves isPaused = true, isPlaying = false,
\* and the transport position, the parts and the schedule as they were; a
\* play() of a paused engine starts the transport at that position and leaves
\* position, parts and schedule (no second auto-stop) as they were; pause()
\* on an engine that is not playing changes nothing.
C16_PauseResume ==
  [][/\ (hist'.op = "jamPause" /\ hist'.flag)
          => /\ jam'.isPaused /\ ~jam'.isPlaying /\ tState' = "paused"
             /\ tPos' = tPos /\ jamParts' = jamParts /\ timeline' = timeline
     /\ (hist'.op = "jamPause" /\ ~hist'.flag)
          => UNCHANGED << toneVars, jamVars >>
     /\ (hist'.op \in {"jamPlay", "jamPlayResume"} /\ jam.isPaused)
          => /\ tState' = "started" /\ tPos' = tPos
             /\ jamParts' = jamParts /\ timeline' = timeline]_vars

\* a play() has resumed an engine that was paused in the middle of the session
C16_Witness ==
  /\ hist.op = "jamPlay" /\ jam.isPaused /\ tState = "started" /\ tPos > 0
  /\ \E i \in 1..Len(timeline) : timeline[i].kind = "auto"

\* C17: seek(t) leaves currentTime at t clamped into [0, duration] (0 for
\* NaN); on an engine that is not playing, its transport stopped or paused,
\* it leaves isPlaying, isPaused and the parts as they were.
C17_SeekWhenNotPlaying ==
  [][(hist'.op = "jamSeek" /\ ~hist'.flag /\ tState # "started")
        => /\ jam'.currentTime = SeekClamp(hist'.seek, jam.duration)
           /\ jam'.isPlaying = jam.isPlaying /\ jam'.isPaused = jam.isPaused
           /\ jamParts' = jamParts]_vars

\* the events of the single-recording engine e that the transport holds
SeScheduled(e) ==
  {i \in 1..Len(timeline) : timeline[i].own = "se" /\ timeline[i].eng = e}

\* C20: dispose() leaves the engine not playing, without instrument, part or
\* scheduled event; an engine that was disposed never plays again and never
\* constructs another instrument.
C20_DisposedUnusable ==
  [][\A e \in DOMAIN se :
        /\ (hist'.op = "seDispose" /\ hist'.trk = e)
              => /\ ~se'[e].isPlaying /\ se'[e].instrument = 0
                 /\ se'[e].currentPart = 0 /\ SeScheduled(e)' = {}
        /\ e \in hist.disposed
              => /\ ~se'[e].isPlaying /\ se'[e].instMade = se[e].instMade]_vars

-----------------------------------------------------------------------------
(* C21..C30 *)

\* C21: a play() that finds its single-recording engine not ready starts no
\* playback, neither when it is called nor when it goes on after init():
\* no part is created, the transport is left alone, isPlaying stays false.
C21_NotReadyRejected ==
  [][\A e \in DOMAIN se :
        (/\ hist'.trk = e
         /\ \/ hist'.op = "sePlay" /\ ~se[e].isReady /\ ~se[e].isPlaying
            \/ hist'.op = "seReadyResume")
           => /\ se'[e].partsMade = se[e].partsMade /\ ~se'[e].isPlaying
              /\ tState' = tState /\ tPos' = tPos /\ timeline' = timeline]_vars

\* the engines of the board that have listeners on the transport and parts
AttachedEngines == {i \in 1..Len(boardEngines) : boardEngines[i] = "attached"}

\* C22: at any time at most one engine created by JamBoard has its transport
\* listeners and parts attached: when a new engine is installed, every engine
\* created before it has been disposed.
C22_OneEngineAttached == Cardinality(AttachedEngines) <= 1

\* the page right after mount, nothing stored yet
InitStorage ==
  /\ jamSession = createEmptyJamSession /\ nextTrackId = 1
  /\ InitPage /\ InitEngineRef /\ InitTone /\ InitJam /\ InitOthers
  /\ hist = HistInit(MaxStoreOps)

NextStorage == AddStoredRecording \/ SaveRecordings \/ LoadRecordings

SpecStorage == InitStorage /\ [][NextStorage]_vars

\* C23: loading what a successful save of a list stored gives a list equal
\* to the saved one: the same recordings in the same order, each with the
\* same fields and the same notes in the same order.
C23_SaveLoadRoundTrip ==
  [][(hist'.op = "save" /\ hist'.flag) => loadRecordings(storage') = recordings]_vars

\* a list of two recordings, one with a note at timestamp 0, was saved and
\* then loaded
C23_Witness ==
  /\ hist.op = "load" /\ hist.flag /\ Len(recordings) = 2
  /\ storage = saveRecordings(recordings)
  /\ \E r \in 1..2 : recordings[r].vals[4].items[1].vals[6] = JNum(0)

\* the number of times the event of note i of the part of a track is on the
\* transport's timeline
TimesScheduled(tl, track, i) ==
  Cardinality({n \in 1..Len(tl) :
                 tl[n] = NoteEvent("jam", 0, track.id, i, PartTimes(track)[i])})

-----------------------------------------------------------------------------
(* C25: after every add, remove or move of a track on the board, the       *)
(* session's duration is the greatest startTime + duration of its tracks,  *)
(* and 0 when it has no track.                                             *)

TrackEnd(track) == track.startTime + track.duration

C25_DurationIsLatestEnd ==
  /\ \A i \in 1..Len(jamSession.tracks) :
        TrackEnd(jamSession.tracks[i]) <= jamSession.duration
  /\ Len(jamSession.tracks) = 0 => jamSession.duration = 0
  /\ Len(jamSession.tracks) > 0 =>
        \E i \in 1..Len(jamSession.tracks) :
           TrackEnd(jamSession.tracks[i]) = jamSession.duration

\* a move has just put the moved track last, behind another track
C25_Witness ==
  /\ hist.op = "updateTrack" /\ Len(jamSession.tracks) = 2
  /\ \E i, j \in 1..2 :
        /\ jamSession.tracks[i].id = hist.trk
        /\ jamSession.tracks[i].startTime = MaxStart
        /\ TrackEnd(jamSession.tracks[i]) = jamSession.duration
        /\ TrackEnd(jamSession.tracks[j]) < jamSession.duration

-----------------------------------------------------------------------------
(* findAvailableTrackIndex on the sessions of a board whose lanes hold no  *)
(* overlapping tracks: up to MaxPlaced tracks, each one of the library     *)
(* recordings at a start time up to MaxStart on one of the lanes the       *)
(* function looks at.                                                      *)

LaneHolds(session, lane, startTime, duration) ==
  \E i \in 1..Len(session.tracks) :
     /\ session.tracks[i].trackIndex = lane
     /\ Overlaps([startTime |-> startTime, duration |-> duration], session.tracks[i])

PlacedTracks(n) ==
  {createJamTrack(Recording(r), startTime, lane, n) :
     r \in RecIds, startTime \in 0..MaxStart, lane \in 0..(LaneLimit - 1)}

RECURSIVE LaneSessions(_)
LaneSessions(n) ==
  IF n = 0 THEN {createEmptyJamSession}
  ELSE LaneSessions(n - 1) \cup
       {addTrackToSession(session, t) :
          session \in {x \in LaneSessions(n - 1) : Len(x.tracks) = n - 1},
          t \in {y \in PlacedTracks(n) : TRUE}}

NoLaneOverlap(session) ==
  \A i \in 1..Len(session.tracks) :
     ~LaneHolds([session EXCEPT !.tracks = SubSeq(@, 1, i - 1)],
                session.tracks[i].trackIndex, session.tracks[i].startTime,
                session.tracks[i].duration)

InitLanes ==
  /\ jamSession \in {session \in LaneSessions(MaxPlaced) : NoLaneOverlap(session)}
  /\ nextTrackId = Len(jamSession.tracks) + 1
  /\ InitPage /\ InitEngineRef /\ InitTone /\ InitJam /\ InitOthers
  /\ hist = HistInit(MaxBoardOps)

\* the call findAvailableTrackIndex(jamSession, preferredTrackIndex, startTime,
\* recording.duration / 1000) of a run, for a recording about to be placed
FindAvailableTrackIndexCall ==
  /\ libCall = NoLibCall
  /\ \E preferredTrackIndex \in 0..(LaneLimit - 1), startTime \in 0..MaxStart, r \in RecIds :
       LET duration == MsToTime(Recording(r).duration)
       IN libCall' = [fn |-> "findAvailableTrackIndex",
                      args |-> << preferredTrackIndex, startTime, duration >>,
                      result |-> findAvailableTrackIndex(jamSession, preferredTrackIndex,
                                                         startTime, duration)]
  /\ hist' = Step(hist, "findAvailableTrackIndex", 0, FALSE)
  /\ UNCHANGED << jamSession, nextTrackId, pageVars, engVars, toneVars, jamVars, seVars,
                  listVars, lsVars >>

NextLanes == FindAvailableTrackIndexCall

SpecLanes == InitLanes /\ [][NextLanes]_vars

\* C26: the lane findAvailableTrackIndex returns holds no track of the
\* session that overlaps [startTime, startTime + duration), whatever the
\* preferred lane, the fallback lane included.
C26_ReturnedLaneFree ==
  libCall.fn = "findAvailableTrackIndex" =>
    ~LaneHolds(jamSession, libCall.result, libCall.args[2], libCall.args[3])

-----------------------------------------------------------------------------
(* C27: a part of the engine holds one event per note of its track's       *)
(* recording, in the order of the notes, the event of a note at the        *)
(* track's startTime plus the note's timestamp; so the events of a part    *)
(* are in time order when the timestamps are, on the transport as well.    *)

C27_PartEventsAtAbsoluteTimes ==
  /\ \A n \in 1..Len(jamTracks) :
        LET track == jamTracks[n]
            notes == Recording(track.recordingId).notes
        IN track.id \in DOMAIN jamParts =>
             LET events == jamParts[track.id].events
             IN /\ Len(events) = Len(notes)
                /\ \A i \in 1..Len(notes) :
                      events[i].time = track.startTime + MsToTime(notes[i].timestamp)
                /\ \A i, j \in 1..Len(notes) :
                      (i < j /\ notes[i].timestamp <= notes[j].timestamp)
                         => events[i].time <= events[j].time
  /\ \A a, b \in 1..Len(timeline) :
        (/\ timeline[a].kind = "note" /\ timeline[a].own = "jam"
         /\ timeline[b].kind = "note" /\ timeline[b].own = "jam"
         /\ timeline[a].part = timeline[b].part /\ timeline[a].idx < timeline[b].idx)
           => timeline[a].time <= timeline[b].time

\* the two-note track was moved to a later start while the engine played,
\* and its rebuilt part is on the transport
C27_Witness ==
  /\ hist.op = "jamUpdateTrack" /\ jam.isPlaying
  /\ \E n \in 1..Len(jamTracks) :
        /\ jamTracks[n].id = hist.trk /\ jamTracks[n].startTime = 1
        /\ jamTracks[n].id \in DOMAIN jamParts
        /\ jamParts[jamTracks[n].id].gen = 2 /\ jamParts[jamTracks[n].id].started
        /\ Len(jamParts[jamTracks[n].id].events) = 2
        /\ \E a \in 1..Len(timeline) :
              /\ timeline[a].kind = "note" /\ timeline[a].own = "jam"
              /\ timeline[a].part = hist.trk /\ timeline[a].idx = 2
              /\ timeline[a].time = 2

-----------------------------------------------------------------------------
(* The velocity of an event, for every note velocity from 0 to 1 in        *)
(* hundredths and the track volumes 0, 0.5, 1, ... up to MaxVolume halves. *)

MaxVolume == 4

NoteVelocities == 0..100

TrackVolumes == {50 * k : k \in 0..MaxVolume}

InitVelocity ==
  /\ jamSession = createEmptyJamSession /\ nextTrackId = 1
  /\ InitPage /\ InitEngineRef /\ InitTone /\ InitJam /\ InitOthers
  /\ hist = HistInit(MaxBoardOps)

\* the velocity expression of createParts and recreateTrackPart, on a note
\* velocity and a track volume
EventVelocityCall ==
  /\ libCall = NoLibCall
  /\ \E velocity \in NoteVelocities, volume \in TrackVolumes :
       libCall' = [fn |-> "eventVelocity", args |-> << velocity, volume >>,
                   result |-> EventVelocity(velocity, volume)]
  /\ hist' = Step(hist, "eventVelocity", 0, FALSE)
  /\ UNCHANGED << jamSession, nextTrackId, pageVars, engVars, toneVars, jamVars, seVars,
                  listVars, lsVars >>

NextVelocity == EventVelocityCall

SpecVelocity == InitVelocity /\ [][NextVelocity]_vars

\* C28: the velocity of an event is the note's velocity times the track's
\* volume, clamped to [0, 1] (here 0..10000 ten-thousandths): 0 for a track
\* of volume 0 and for a note of velocity 0.
C28_VelocityScaledAndClamped ==
  libCall.fn = "eventVelocity" =>
    LET product == libCall.args[1] * libCall.args[2]
    IN libCall.result = (IF product > 10000 THEN 10000 ELSE product)

-----------------------------------------------------------------------------
(* C29: updateTrack(trackId, {startTime}) rebuilds the part of that track  *)
(* and nothing else: the parts of the other tracks and their events on the *)
(* transport, the other tracks, the instruments, isPlaying, isPaused and   *)
(* the position stay as they are; for a track id the session does not     *)
(* hold, or on an engine without a session, nothing changes at all.        *)

C29_UpdateTrackFrame ==
  [][(hist'.op = "jamUpdateTrack" /\ hist'.flag) =>
       LET id == hist'.trk
           known == jam.hasSession /\ id \in TrackIds(jamTracks)
           NotOfTrack(ev) == ~(ev.kind = "note" /\ ev.own = "jam" /\ ev.part = id)
       IN /\ jamInst' = jamInst
          /\ jam'.isPlaying = jam.isPlaying /\ jam'.isPaused = jam.isPaused
          /\ jam'.currentTime = jam.currentTime
          /\ tState' = tState /\ tPos' = tPos /\ pendingEvt' = pendingEvt
          /\ DOMAIN jamParts' \subseteq DOMAIN jamParts \cup {id}
          /\ \A o \in DOMAIN jamParts \ {id} :
                o \in DOMAIN jamParts' /\ jamParts'[o] = jamParts[o]
          /\ SelectSeq(timeline', NotOfTrack) = SelectSeq(timeline, NotOfTrack)
          /\ SelectSeq(due', NotOfTrack) = SelectSeq(due, NotOfTrack)
          /\ Len(jamTracks') = Len(jamTracks)
          /\ \A n \in 1..Len(jamTracks) :
                jamTracks[n].id # id => jamTracks'[n] = jamTracks[n]
          /\ (known /\ id \in DOMAIN jamParts) =>
                /\ id \in DOMAIN jamParts'
                /\ jamParts'[id].gen = jamParts[id].gen + 1
          /\ ~known =>
                /\ jam' = jam /\ jamTracks' = jamTracks /\ jamParts' = jamParts
                /\ timeline' = timeline /\ due' = due]_vars

\* a track was moved while the engine played: its part is rebuilt and the
\* started part of the other track still has its events on the transport
C29_Witness ==
  /\ hist.op = "jamUpdateTrack" /\ hist.flag /\ jam.isPlaying
  /\ hist.trk \in DOMAIN jamParts /\ jamParts[hist.trk].gen = 2
  /\ \E o \in DOMAIN jamParts \ {hist.trk} :
        /\ jamParts[o].started /\ jamParts[o].gen = 1
        /\ \E a \in 1..Len(timeline) :
              timeline[a].kind = "note" /\ timeline[a].own = "jam" /\ timeline[a].part = o

-----------------------------------------------------------------------------
(* The engine on a session in which two tracks use the same instrument:    *)
(* the piano recording on lanes 0 and 1 and the drums recording on lane 2. *)

SharedSessionInputs ==
  {addTrackToSession(
     addTrackToSession(
       addTrackToSession(createEmptyJamSession, createJamTrack(Recording(1), s1, 0, 1)),
       createJamTrack(Recording(1), s2, 1, 2)),
     createJamTrack(Recording(2), 0, 2, 3)) : s1 \in 0..1, s2 \in 0..1}

InitJamShared ==
  /\ jamSession \in SharedSessionInputs /\ nextTrackId = 4
  /\ InitPage /\ InitEngineRef /\ InitTone /\ InitJam /\ InitOthers
  /\ hist = HistInit(MaxEngineOps)

SpecJamShared == InitJamShared /\ [][NextJam]_vars

-----------------------------------------------------------------------------
(* The library of the page (app/page.js) with its storage: every handler   *)
(* that sets the recordings state is followed, after the render, by the    *)
(* effect on [recordings], which saves a list that is not empty.           *)
(* localStorage.setItem succeeds in these runs.                            *)

\* useEffect(() => { if (recordings.length > 0) saveRecordings(recordings) })
SaveEffect(list, item) == IF Len(list) > 0 THEN saveRecordings(list) ELSE item

\* clearRecordings(): localStorage.removeItem(STORAGE_KEY)
clearRecordings == NoItem

\* the id crypto.randomUUID() gives a recording: one no recording of the list has
FreshStoredId(list) ==
  LET used == {list[n].vals[1].s : n \in 1..Len(list)}
  IN StoredIdOf(CHOOSE n \in 1..(Len(list) + 1) :
                  /\ StoredIdOf(n) \notin used
                  /\ \A m \in 1..(n - 1) : StoredIdOf(m) \in used)

\* toggleRecording, stop, with notes recorded: the final recording is appended
FinalizeRecording ==
  /\ UserCan /\ Len(recordings) < MaxSaved
  /\ \E take \in RecordedTakes :
       LET final == StoredRecording(FreshStoredId(recordings), take.instrument,
                      [k \in 1..Len(take.stamps) |->
                         StoredNote(take.instrument, "C4", take.stamps[k])],
                      take.stamps[Len(take.stamps)] + 1)
       IN /\ recordings' = Append(recordings, final)
          /\ storage' = SaveEffect(recordings', storage)
  /\ hist' = UserStep(hist, "finalize", 0, FALSE)
  /\ UNCHANGED << jamSession, nextTrackId, libCall, engVars, page, now, keyCalls,
                  toneVars, jamVars, seVars, listVars, lsVars >>

\* handleDeleteRecording(recordingId)
HandleDeleteRecording ==
  /\ UserCan
  /\ \E n \in 1..Len(recordings) :
       LET recordingId == recordings[n].vals[1]
       IN /\ recordings' = SelectSeq(recordings, LAMBDA r : r.vals[1] # recordingId)
          /\ storage' = SaveEffect(recordings', storage)
  /\ hist' = UserStep(hist, "deleteRecording", 0, Len(recordings) = 1)
  /\ UNCHANGED << jamSession, nextTrackId, libCall, engVars, page, now, keyCalls,
                  toneVars, jamVars, seVars, listVars, lsVars >>

\* handleClearAllRecordings(): nothing for an empty list or when the user
\* does not confirm
HandleClearAllRecordings ==
  /\ UserCan
  /\ \E confirmed \in BOOLEAN :
       IF Len(recordings) = 0 \/ ~confirmed
       THEN UNCHANGED << recordings, storage >>
       ELSE /\ recordings' = << >>
            /\ storage' = SaveEffect(recordings', clearRecordings)
  /\ hist' = UserStep(hist, "clearAll", 0, FALSE)
  /\ UNCHANGED << jamSession, nextTrackId, libCall, engVars, page, now, keyCalls,
                  toneVars, jamVars, seVars, listVars, lsVars >>

\* a reload of the page: the state starts empty, the mount effect sets it to
\* loadRecordings()
ReloadPage ==
  /\ UserCan
  /\ recordings' = loadRecordings(storage)
  /\ storage' = SaveEffect(recordings', storage)
  /\ hist' = UserStep(hist, "reload", 0, FALSE)
  /\ UNCHANGED << jamSession, nextTrackId, libCall, engVars, page, now, keyCalls,
                  toneVars, jamVars, seVars, listVars, lsVars >>

InitLibrary ==
  /\ jamSession = createEmptyJamSession /\ nextTrackId = 1
  /\ InitPage /\ InitEngineRef /\ InitTone /\ InitJam /\ InitOthers
  /\ hist = HistInit(MaxLibraryOps)

NextLibrary ==
  FinalizeRecording \/ HandleDeleteRecording \/ HandleClearAllRecordings \/ ReloadPage

SpecLibrary == InitLibrary /\ [][NextLibrary]_vars

\* C31: what storage holds is the recordings list of the page: a reload
\* gives back the current library, also after the last recording was deleted.
C31_StorageIsLibrary == loadRecordings(storage) = recordings

-----------------------------------------------------------------------------
(* The key tables as the module builds them: new Map(entries) of the       *)
(* entries of the top, the middle and the bottom row, in this order; of    *)
(* two entries with one key the Map keeps the value of the later one.      *)

\* ...rows.top.map(F), ...rows.mid.map(F), ...rows.bot.map(F): the places
\* [row, n] of the entries, n from 1
TablePlaces ==
  [n \in 1..Len(rows.top) |-> [row |-> "top", n |-> n]]
    \o [n \in 1..Len(rows.mid) |-> [row |-> "mid", n |-> n]]
    \o [n \in 1..Len(rows.bot) |-> [row |-> "bot", n |-> n]]

NoBinding == [bound |-> FALSE]

\* Map.get(k) of the Map built from the entries at TablePlaces: the place of
\* the last entry whose key is k
TableGet(k) ==
  LET at == {e \in 1..Len(TablePlaces) : rows[TablePlaces[e].row][TablePlaces[e].n] = k}
  IN IF at = {} THEN NoBinding
     ELSE LET p == TablePlaces[CHOOSE e \in at : \A o \in at : o <= e]
          IN [bound |-> TRUE, row |-> p.row, n |-> p.n]

\* indexMap.get(k), noteMap.get(k) and drumKeyToNote.get(k) of the Maps
KeyBinding(k) ==
  LET p == TableGet(k)
  IN IF ~p.bound THEN NoBinding
     ELSE [bound |-> TRUE,
           index |-> [row |-> p.row, i |-> p.n - 1, len |-> Len(rows[p.row])],
           note |-> [note |-> (IF p.row = "top" THEN 72 ELSE IF p.row = "mid" THEN 60 ELSE 48)
                                + (p.n - 1),
                     row |-> p.row],
           drum |-> IF p.n - 1 < 7 THEN baseCols[p.n]
                    ELSE IF p.row = "mid" THEN 38 ELSE 36]

\* the keys of a keyboard the tables are asked for: the letters and a digit
TypedKeys == RowKeys \cup {"1"}

InitKeys ==
  /\ jamSession = createEmptyJamSession /\ nextTrackId = 1
  /\ InitPage /\ InitEngineRef /\ InitTone /\ InitJam /\ InitOthers
  /\ hist = HistInit(MaxTyped)

\* a key is looked up in the three tables; libCall keeps the keys and the
\* bindings of the run
LookupKey ==
  /\ Len(libCall.args) < MaxTyped
  /\ \E k \in TypedKeys :
       libCall' = [fn |-> "keyTables", args |-> Append(libCall.args, k),
                   result |-> KeyBinding(k)]
  /\ hist' = Step(hist, "lookupKey", 0, FALSE)
  /\ UNCHANGED << jamSession, nextTrackId, pageVars, engVars, toneVars, jamVars, seVars,
                  listVars, lsVars >>

NextKeys == LookupKey

SpecKeys == InitKeys /\ [][NextKeys]_vars

\* the places of the rows that hold key k
PlacesOf(k) ==
  {p \in {TablePlaces[e] : e \in 1..Len(TablePlaces)} : rows[p.row][p.n] = k}

\* C32: the tables bind 26 keys; a key of a row stands at one place of one
\* row, its binding has that row in indexMap and in noteMap, its i is its
\* rank in the row from 0, its len the size of the row, and it has a drum
\* note; two keys of a row never share a rank.
C32_KeyTablesBindOnce ==
  libCall.fn = "keyTables" =>
    LET k == libCall.args[Len(libCall.args)]
        b == libCall.result
    IN /\ Cardinality(RowKeys) = 26
       /\ Len(TablePlaces) = 26
       /\ b.bound <=> k \in RowKeys
       /\ b.bound =>
             /\ Cardinality(PlacesOf(k)) = 1
             /\ \A p \in PlacesOf(k) :
                   /\ b.index.row = p.row /\ b.note.row = p.row
                   /\ b.index.i = p.n - 1
                   /\ b.index.i \in 0..(b.index.len - 1)
                   /\ b.index.len = Len(rows[p.row])
             /\ b.index = indexMap(k) /\ b.note = noteMap(k)
             /\ b.drum = drumKeyToNote(k)

\* the last key of the middle row was looked up after the first key of the
\* top row
C32_Witness ==
  /\ libCall.fn = "keyTables" /\ libCall.args = << "q", "l" >>
  /\ libCall.result.bound
  /\ libCall.result.index = [row |-> "mid", i |-> 8, len |-> 9]

-----------------------------------------------------------------------------
(* odin-test_practice/src/functions.js: caesarCipher.  A string is the     *)
(* sequence of the char codes of its characters.                           *)

\* a % n of JavaScript: the remainder has the sign of the dividend
JsRemainder(a, n) == IF a >= 0 THEN a % n ELSE 0 - ((0 - a) % n)

IsUpper(code) == code >= 65 /\ code <= 90
IsLower(code) == code >= 97 /\ code <= 122

\* the callback of string.split('').map
CipherChar(code, shift) ==
  IF IsUpper(code) THEN JsRemainder(code - 65 + shift, 26) + 65
  ELSE IF IsLower(code) THEN JsRemainder(code - 97 + shift, 26) + 97
  ELSE code

caesarCipher(string, shift) == [n \in 1..Len(string) |-> CipherChar(string[n], shift)]

\* A, Z, a, m, z, the space, the comma and the character before a
CipherChars == {65, 90, 97, 109, 122, 32, 44, 96}

CipherStrings == UNION {[1..m -> CipherChars] : m \in 0..MaxText}

InitCipher ==
  /\ jamSession = createEmptyJamSession /\ nextTrackId = 1
  /\ InitPage /\ InitEngineRef /\ InitTone /\ InitJam /\ InitOthers
  /\ hist = HistInit(MaxText)

\* the call caesarCipher(string, shift) of a run
CaesarCipherCall ==
  /\ libCall = NoLibCall
  /\ \E string \in CipherStrings, shift \in (0 - MaxShift)..MaxShift :
       libCall' = [fn |-> "caesarCipher", args |-> << string, shift >>,
                   result |-> caesarCipher(string, shift)]
  /\ hist' = Step(hist, "caesarCipher", 0, FALSE)
  /\ UNCHANGED << jamSession, nextTrackId, pageVars, engVars, toneVars, jamVars, seVars,
                  listVars, lsVars >>

NextCipher == CaesarCipherCall

SpecCipher == InitCipher /\ [][NextCipher]_vars

\* C33: caesarCipher(s, k) has the length of s; a letter becomes the letter
\* k positions later in the alphabet of its case, going round from z to a,
\* for every integer k; any other character stays.
C33_CipherShiftsLetters ==
  libCall.fn = "caesarCipher" =>
    LET string == libCall.args[1]
        shift == libCall.args[2]
        out == libCall.result
    IN /\ Len(out) = Len(string)
       /\ \A n \in 1..Len(string) :
             /\ IsUpper(string[n]) =>
                   /\ IsUpper(out[n])
                   /\ (out[n] - string[n] - shift) % 26 = 0
             /\ IsLower(string[n]) =>
                   /\ IsLower(out[n])
                   /\ (out[n] - string[n] - shift) % 26 = 0
             /\ (~IsUpper(string[n]) /\ ~IsLower(string[n])) => out[n] = string[n]

-----------------------------------------------------------------------------
(* C34: when play() resumes an engine on which updateTrack has just moved  *)
(* a track during the pause, the rebuilt part of that track is started    *)
(* and its events after the position are on the transport.                 *)

\* the events of the part of track id that the transport holds
OnTransport(tl, id) ==
  {tl[a].idx : a \in {b \in 1..Len(tl) :
                        tl[b].kind = "note" /\ tl[b].own = "jam" /\ tl[b].part = id}}

C34_ResumePlaysMovedTrack ==
  [][(/\ hist'.op = "jamPlay" /\ hist.op = "jamUpdateTrack" /\ hist.flag
      /\ jam.isPaused /\ tState = "paused" /\ ctx = "running"
      /\ hist.trk \in DOMAIN jamParts)
       => /\ jamParts'[hist.trk].started
          /\ \A n \in 1..Len(jamParts'[hist.trk].events) :
                jamParts'[hist.trk].events[n].time > tPos'
                   => n \in OnTransport(timeline', hist.trk)]_vars

-----------------------------------------------------------------------------
(* C35: an event that fires is played or suppressed by the muted and solo  *)
(* flags the tracks have at that moment, and is played at the velocity of  *)
(* its note times the volume its track has at that moment, at most 1       *)
(* (10000 ten-thousandths), whatever updateTrack has set since init.       *)

C35_FiredEventsUseUpdatedTrack ==
  [][hist'.op = "fireJamNote" =>
       LET ev == Head(due)
           track == TrackById(jamTracks, ev.part)
           note == Recording(track.recordingId).notes[ev.idx]
           product == note.velocity * track.volume
           soloed == \E n \in 1..Len(jamTracks) : jamTracks[n].solo
       IN /\ hist'.flag <=> (~track.muted /\ (soloed => track.solo))
          /\ hist'.flag =>
                PlayedVelocity(jamParts, ev) = (IF product > 10000 THEN 10000 ELSE product)]_vars

-----------------------------------------------------------------------------
(* C36: once init has ended, the duration the engine clamps seek and the   *)
(* time display to, and stops the run at, is the latest end of the tracks  *)
(* of its session, also after updateTrack has moved a track.               *)

C36_EngineDurationIsLatestEnd ==
  jam.initPc = "done" =>
    /\ \A n \in 1..Len(jamTracks) :
          jamTracks[n].startTime + jamTracks[n].duration <= jam.duration
    /\ Len(jamTracks) > 0 =>
          \E n \in 1..Len(jamTracks) :
             jamTracks[n].startTime + jamTracks[n].duration = jam.duration

-----------------------------------------------------------------------------
(* Readiness of the single-recording engine (createPlaybackEngine.init,   *)
(* dispose)                                                                *)

\* C37: an engine whose isReady is true holds an instrument that is neither
\* null nor disposed, whatever the order of dispose() and the continuation of
\* an init() suspended at instrument.ensureReady().
C37_ReadyHoldsLiveInstrument ==
  \A e \in DOMAIN se :
     se[e].isReady => /\ se[e].instrument # 0
                      /\ se[e].instrument \notin se[e].instDisposed

-----------------------------------------------------------------------------
(* Second toggle of a playing recording (RecordingsList.togglePlayback)    *)

\* no play() of engine e is suspended: the togglePlayback that started it
\* has run to its end
SeSettled(e) == \A k \in SeCallKeys : k.eng = e => seCalls[k] = 0

\* C38: when togglePlayback(id) has started the engine of recording id and
\* the engine is still playing (no auto-stop yet), the next togglePlayback(id)
\* stops that engine; the first playback starts from playbackStates = {}.
C38_SecondToggleStops ==
  [][\A r \in RecIds :
       (/\ hist'.ops = hist.ops + 1 /\ hist'.trk = r
        /\ hist'.op \in {"togglePlay", "toggleStop"}
        /\ r \in DOMAIN se /\ se[r].isPlaying /\ SeSettled(r))
          => ~se'[r].isPlaying]_vars

-----------------------------------------------------------------------------
(* Instrument of a recording and of its notes (Page.onKeyDown, the         *)
(* instrument selection effect)                                            *)

\* the <select> of the page: setSelected(value), then the effect on
\* [selected] runs setReady(false) and loads the instrument; the select is
\* enabled whether or not a recording is going on
SelectInstrument ==
  /\ hist.ops < hist.budget
  /\ \E value \in {"piano", "drums"} :
       /\ value # page.selected
       /\ page' = [page EXCEPT !.selected = value, !.ready = FALSE]
       /\ hist' = UserStep(hist, "select", 0, page.isRecording)
  /\ UNCHANGED << jamSession, nextTrackId, libCall, engVars, storage, recordings, now,
                  keyCalls, toneVars, jamVars, seVars, listVars, lsVars >>

\* the page right after mount: useState("piano")
InitRecorderSelect ==
  /\ jamSession = createEmptyJamSession /\ nextTrackId = 1
  /\ InitPage /\ InitEngineRef /\ InitTone /\ InitJam /\ InitOthers
  /\ hist = HistInit(MaxPageOps)

NextRecorderSelect ==
  \/ PageInstrumentReady \/ ClockTick \/ ToggleRecording
  \/ OnKeyDown \/ OnKeyDownResume \/ SelectInstrument

SpecRecorderSelect == InitRecorderSelect /\ [][NextRecorderSelect]_vars

\* C39: every note of a recording of the library has the instrument of the
\* recording's instrument field, the one the playback engine replays it with.
C39_NotesShareRecordingInstrument ==
  \A r \in 1..Len(recordings) :
     \A n \in 1..Len(recordings[r].notes) :
        recordings[r].notes[n].instrument = recordings[r].instrument

=============================================================================
